---- MODULE Spec2Model ----
(***************************************************************************)
(* A model of the prompt manager: the application operations of            *)
(* DefaultPromptApplication (src/src/application/app.rs), the key router   *)
(* EventHandler::handle_event and the run loop run_with_mode               *)
(* (src/src/presentation/tui/runner.rs).                                   *)
(*                                                                         *)
(* Strings are sequences of one-character strings, so that lower-casing,   *)
(* replacement and concatenation are computed and not assumed.            *)
(***************************************************************************)
EXTENDS Integers, Sequences, FiniteSets, TLC

VARIABLES
    files,      \* the prompts directory: file name -> file content
    clipboard,  \* the system clipboard: None or the text last copied
    effects,    \* what the last operation did to the outside world
    call,       \* SpecApp: the last call to the application and its result
    app,        \* the TUIApp value owned by run_with_mode
    pc,         \* run_with_mode: the statement about to execute
    raw,        \* terminal: raw mode enabled
    alt,        \* terminal: alternate screen entered
    ret,        \* run_with_mode: None while running, then "Ok" or "Err"
    last        \* the last key routed: the key, the state before it, the outcome

vars == <<files, clipboard, effects, call, app, pc, raw, alt, ret, last>>

None == "None"

(***************************************************************************)
(* Bounds of the model.                                                    *)
(***************************************************************************)
MaxNameLen == 1     \* longest name passed to an application operation
MaxFiles == 2       \* most prompt files on disk at a time
MaxText == 1        \* longest text typed into the search query or a dialog's buffer
MaxTags == 1        \* most tags on one prompt

(***************************************************************************)
(* Strings.                                                                *)
(***************************************************************************)
SeqsUpTo(S, n) == UNION {[1..k -> S] : k \in 0..n}

Range(s) == {s[i] : i \in 1..Len(s)}

\* char::to_lowercase on the characters of the model's alphabets
LowerChar(c) ==
    CASE c = "A" -> "a"
      [] c = "N" -> "n"
      [] c = "Y" -> "y"
      [] OTHER -> c

IsUpperChar(c) == c \in {"A", "N", "Y"}

\* str::to_lowercase
ToLowercase(s) == [i \in 1..Len(s) |-> LowerChar(s[i])]

\* str::replace(from, to) for a one-character pattern and replacement
Replace(s, from, to) == [i \in 1..Len(s) |-> IF s[i] = from THEN to ELSE s[i]]

\* a normalization that forgets to replace the spaces
Normalize_lowercase_only(s) == ToLowercase(s)

\* let normalized_name = name.to_lowercase().replace(' ', "-");
Normalize(s) == Replace(ToLowercase(s), " ", "-")

InNormalForm(s) == \A i \in 1..Len(s) : ~IsUpperChar(s[i]) /\ s[i] # " "

\* char::len_utf8: the bytes of a character in a str
MultiByteChars == {"é"}
len_utf8(c) == IF c \in MultiByteChars THEN 2 ELSE 1

\* str::len: the length in bytes
RECURSIVE str_len(_)
str_len(s) == IF s = <<>> THEN 0 ELSE len_utf8(Head(s)) + str_len(Tail(s))

\* &s[..end]: the first `end` bytes of s; None stands for the panic of a slice
\* whose end is not on a character boundary or is past the end
RECURSIVE SliceTo(_, _)
SliceTo(s, end) ==
    IF end = 0 THEN [some |-> TRUE, val |-> <<>>]
    ELSE IF s = <<>> \/ len_utf8(Head(s)) > end THEN [some |-> FALSE]
    ELSE LET rest == SliceTo(Tail(s), end - len_utf8(Head(s))) IN
         IF rest.some THEN [some |-> TRUE, val |-> <<Head(s)>> \o rest.val]
         ELSE [some |-> FALSE]

MdExt == ".md"
FileName(stem) == Append(stem, MdExt)
Stem(path) == SubSeq(path, 1, Len(path) - 1)

(***************************************************************************)
(* Errors (src/src/utils/error.rs).                                        *)
(***************************************************************************)
Err(kind, variant, field, text) ==
    [kind |-> kind, variant |-> variant, field |-> field, text |-> text]

NotFound(name) == Err("Prompt", "NotFound", "", name)
AlreadyExists(name) == Err("Prompt", "AlreadyExists", "", name)
ForceRequired ==
    Err("Validation", "InvalidInput", "confirmation",
        <<"Deletion", "cancelled.", "Use", "--force", "to", "skip", "confirmation.">>)
UnknownTemplate(t) == Err("Validation", "InvalidInput", "template", <<"Unknown", "template", t>>)
ClipboardError == Err("External", "ClipboardError", "", <<>>)
EditorError == Err("External", "EditorError", "", <<>>)
ParseError == Err("Storage", "ParseError", "", <<>>)
IoError == Err("Storage", "Io", "", <<>>)
\* not a FinkError: the thread panicked and the call did not return
Panic == Err("Panic", "panic", "", <<>>)

\* is_recoverable with one arm for all of PromptError
is_recoverable_any_prompt_error(e) ==
    \/ e.kind = "Prompt"
    \/ e.kind = "Validation"

\* FinkError::is_recoverable
is_recoverable(e) ==
    \/ e.kind = "Prompt" /\ e.variant \in {"NotFound", "AlreadyExists"}
    \/ e.kind = "Validation"

\* Result<T>: Ok(()), Ok(v) and Err(e)
Ok == [ok |-> TRUE]
OkVal(v) == [ok |-> TRUE, val |-> v]
Fail(e) == [ok |-> FALSE, err |-> e]

\* Option<T>
NoneV == [some |-> FALSE]
Some(v) == [some |-> TRUE, val |-> v]

(***************************************************************************)
(* The prompt store and the collaborators of the application. Their code   *)
(* is not among the source files; they follow spec.md 4.1 and 6.          *)
(***************************************************************************)
\* a file's content: the header's tags and the body (the display name, which no
\* operation reads back, is left out)
Content(display, tags, body) == [tags |-> tags, body |-> body]

\* the application's view of a prompt file: PromptMetadata
Metadata(fs, path) == [name |-> Stem(path), file_path |-> path, tags |-> fs[path].tags]

\* the outside world an application operation acts on
Sys(fs, clip, eff) == [files |-> fs, clipboard |-> clip, effects |-> eff]

Effect(sys, what, path) == [sys EXCEPT !.effects = @ \cup {<<what, path>>}]

Out(sys, res) == [sys |-> sys, res |-> res]

\* PromptRepository::prompt_exists: a file named <normalized_name>.md exists
prompt_exists(fs, normalized_name) == FileName(normalized_name) \in DOMAIN fs

\* PromptRepository::find_by_name: the record whose name equals the argument
find_by_name(fs, name) ==
    IF FileName(name) \in DOMAIN fs
    THEN Some([name |-> name, file_path |-> FileName(name), tags |-> fs[FileName(name)].tags])
    ELSE NoneV

\* PromptRepository::get_content / read_prompt: the file's content
repository_get_content(sys, file_path) ==
    IF file_path \in DOMAIN sys.files
    THEN Out(Effect(sys, "read", file_path), OkVal(sys.files[file_path]))
    ELSE Out(sys, Fail(NotFound(Stem(file_path))))

\* PromptRepository::list_all: one record per prompt file, in the repository's
\* order; list_ok is whether the directory can be read
RECURSIVE ListingOf(_, _)
ListingOf(fs, paths) ==
    IF paths = {} THEN <<>>
    ELSE LET first == CHOOSE p \in paths : TRUE IN
         <<Metadata(fs, first)>> \o ListingOf(fs, paths \ {first})
repository_list_all(sys, list_ok) ==
    IF list_ok THEN Out(sys, OkVal(ListingOf(sys.files, DOMAIN sys.files)))
    ELSE Out(sys, Fail(IoError))

\* PromptRepository::create_prompt
repository_create_prompt(sys, normalized_name, content) ==
    LET path == FileName(normalized_name) IN
    IF path \in DOMAIN sys.files
    THEN Out(sys, Fail(AlreadyExists(normalized_name)))
    ELSE Out(Effect([sys EXCEPT !.files =
                        [p \in DOMAIN sys.files \cup {path} |->
                            IF p = path THEN content ELSE sys.files[p]]],
                    "write", path), Ok)

\* PromptRepository::write_prompt
repository_write_prompt(sys, file_path, content) ==
    Out(Effect([sys EXCEPT !.files =
                   [p \in DOMAIN sys.files \cup {file_path} |->
                       IF p = file_path THEN content ELSE sys.files[p]]],
               "write", file_path), Ok)

\* PromptRepository::delete_prompt
repository_delete_prompt(sys, file_path) ==
    IF file_path \in DOMAIN sys.files
    THEN Out(Effect([sys EXCEPT !.files = [p \in DOMAIN sys.files \ {file_path} |-> sys.files[p]]],
                    "delete", file_path), Ok)
    ELSE Out(sys, Fail(NotFound(Stem(file_path))))

\* the templates the generator knows; None is "no template given"
KnownTemplates == {"basic"}
Templates == KnownTemplates \cup {None, "invalid-template"}

\* TemplateGenerator::generate
TemplateGenerator_generate(name, template) ==
    IF template = None THEN OkVal(Content(name, <<>>, "empty"))
    ELSE IF template \in KnownTemplates THEN OkVal(Content(name, <<>>, template))
    ELSE Fail(UnknownTemplate(template))

\* ClipboardManager::copy; clip_ok is whether the system clipboard accepts the write
ClipboardManager_copy(sys, text, clip_ok) ==
    IF clip_ok
    THEN Out(Effect([sys EXCEPT !.clipboard = text], "clipboard", <<>>), Ok)
    ELSE Out(sys, Fail(ClipboardError))

\* EditorLauncher::launch; editor_ok is whether the editor exits with status zero
EditorLauncher_launch(sys, file_path, editor_ok) ==
    Out(Effect(sys, "editor", file_path), IF editor_ok THEN Ok ELSE Fail(EditorError))

(***************************************************************************)
(* DefaultPromptApplication (src/src/application/app.rs).                  *)
(***************************************************************************)
find_prompt_metadata(fs, name) ==
    LET found == find_by_name(fs, name) IN
    IF found.some THEN OkVal(found.val) ELSE Fail(NotFound(name))

\* list_prompts keeping a prompt when every one of its tags is in the filter
list_prompts_all_match(sys, filter, list_ok) ==
    LET prompts == repository_list_all(sys, list_ok) IN
    IF ~prompts.res.ok THEN prompts
    ELSE IF filter.some /\ filter.val.tags.some
    THEN LET tags == filter.val.tags.val
             Retained(p) == \A i \in 1..Len(p.tags) : p.tags[i] \in Range(tags)
         IN  Out(prompts.sys, OkVal(SelectSeq(prompts.res.val, Retained)))
    ELSE prompts

\* filter: Option<PromptFilter>, and PromptFilter.tags: Option<Vec<String>>
list_prompts(sys, filter, list_ok) ==
    LET prompts == repository_list_all(sys, list_ok) IN
    IF ~prompts.res.ok THEN prompts
    ELSE IF filter.some /\ filter.val.tags.some
    THEN LET tags == filter.val.tags.val
             Retained(p) == \E i \in 1..Len(p.tags) : p.tags[i] \in Range(tags)
         IN  Out(prompts.sys, OkVal(SelectSeq(prompts.res.val, Retained)))
    ELSE prompts

get_prompt(sys, identifier) ==
    LET metadata == find_prompt_metadata(sys.files, identifier) IN
    IF ~metadata.ok THEN Out(sys, metadata)
    ELSE repository_get_content(sys, metadata.val.file_path)

copy_to_clipboard(sys, content, clip_ok) == ClipboardManager_copy(sys, content, clip_ok)

\* create_prompt handing the name as typed, not the normalized one, to the repository
create_prompt_raw_name(sys, name, template) ==
    LET normalized_name == Normalize(name) IN
    IF prompt_exists(sys.files, normalized_name)
    THEN Out(sys, Fail(AlreadyExists(name)))
    ELSE LET content == TemplateGenerator_generate(name, template) IN
         IF ~content.ok THEN Out(sys, content)
         ELSE repository_create_prompt(sys, name, content.val)

\* create_prompt generating the content before it looks whether the name is taken
create_prompt_template_first(sys, name, template) ==
    LET normalized_name == Normalize(name)
        content == TemplateGenerator_generate(name, template)
    IN  IF ~content.ok THEN Out(sys, content)
        ELSE IF prompt_exists(sys.files, normalized_name)
        THEN Out(sys, Fail(AlreadyExists(name)))
        ELSE repository_create_prompt(sys, normalized_name, content.val)

create_prompt(sys, name, template) ==
    LET normalized_name == Normalize(name) IN
    IF prompt_exists(sys.files, normalized_name)
    THEN Out(sys, Fail(AlreadyExists(name)))
    ELSE LET content == TemplateGenerator_generate(name, template) IN
         IF ~content.ok THEN Out(sys, content)
         ELSE repository_create_prompt(sys, normalized_name, content.val)

edit_prompt(sys, name, editor_ok) ==
    LET metadata == find_prompt_metadata(sys.files, name) IN
    IF ~metadata.ok THEN Out(sys, metadata)
    ELSE EditorLauncher_launch(sys, metadata.val.file_path, editor_ok)

\* delete_prompt that never asks for force
delete_prompt_unforced(sys, name, force) ==
    LET metadata == find_prompt_metadata(sys.files, name) IN
    IF ~metadata.ok THEN Out(sys, metadata)
    ELSE repository_delete_prompt(sys, metadata.val.file_path)

\* delete_prompt that checks force before it looks the prompt up
delete_prompt_force_first(sys, name, force) ==
    IF ~force THEN Out(sys, Fail(ForceRequired))
    ELSE LET metadata == find_prompt_metadata(sys.files, name) IN
         IF ~metadata.ok THEN Out(sys, metadata)
         ELSE repository_delete_prompt(sys, metadata.val.file_path)

delete_prompt(sys, name, force) ==
    LET metadata == find_prompt_metadata(sys.files, name) IN
    IF ~metadata.ok THEN Out(sys, metadata)
    ELSE IF ~force THEN Out(sys, Fail(ForceRequired))
    ELSE repository_delete_prompt(sys, metadata.val.file_path)

copy_prompt(sys, name, clip_ok) ==
    LET got == get_prompt(sys, name) IN
    IF ~got.res.ok THEN got
    ELSE copy_to_clipboard(got.sys, got.res.val.body, clip_ok)

\* PromptRepository::read_prompt; read_ok is whether the file can be read
repository_read_prompt(sys, file_path, read_ok) ==
    IF read_ok THEN repository_get_content(sys, file_path) ELSE Out(sys, Fail(IoError))

\* FrontmatterUpdater::update_tags: the header's tag list replaced; header_ok is
\* whether the file's header parses
FrontmatterUpdater_update_tags(content, name, tags, header_ok) ==
    IF header_ok THEN OkVal([content EXCEPT !.tags = tags]) ELSE Fail(ParseError)

\* update_prompt_tags writing the new tag list before the header update is known
\* to have succeeded
update_prompt_tags_write_first(sys, name, tags, read_ok, header_ok) ==
    LET metadata == find_prompt_metadata(sys.files, name) IN
    IF ~metadata.ok THEN Out(sys, metadata)
    ELSE LET content == repository_read_prompt(sys, metadata.val.file_path, read_ok) IN
         IF ~content.res.ok THEN content
         ELSE LET written == repository_write_prompt(content.sys, metadata.val.file_path,
                                [content.res.val EXCEPT !.tags = tags])
                  updated_content ==
                      FrontmatterUpdater_update_tags(content.res.val, name, tags, header_ok)
              IN  IF ~updated_content.ok THEN Out(written.sys, updated_content)
                  ELSE written

update_prompt_tags(sys, name, tags, read_ok, header_ok) ==
    LET metadata == find_prompt_metadata(sys.files, name) IN
    IF ~metadata.ok THEN Out(sys, metadata)
    ELSE LET content == repository_read_prompt(sys, metadata.val.file_path, read_ok) IN
         IF ~content.res.ok THEN content
         ELSE LET updated_content ==
                      FrontmatterUpdater_update_tags(content.res.val, name, tags, header_ok) IN
              IF ~updated_content.ok THEN Out(content.sys, updated_content)
              ELSE repository_write_prompt(content.sys, metadata.val.file_path, updated_content.val)


(***************************************************************************)
(* SpecApp: the application operations called directly, as the command     *)
(* surface does, on every small store and with every small argument.       *)
(***************************************************************************)
AppChars == {"a", "A", " ", "-"}
AppNames == SeqsUpTo(AppChars, MaxNameLen)
NormalNames == {n \in AppNames : InNormalForm(n)}
TagLists == {<<>>, <<<<"a">>>>, <<<<"a">>, <<"A">>>>}
\* the filters given to list_prompts: none, one without a tag set, and tag sets
TagSets == {<<>>, <<<<"a">>>>, <<<<"A">>>>, <<<<"r">>, <<"A">>>>}
Filters ==
    {NoneV, Some([tags |-> NoneV])} \cup {Some([tags |-> Some(tags)]) : tags \in TagSets}

InitStores ==
    {[p \in {FileName(n) : n \in S} |-> Content(Stem(p), <<>>, "empty")] :
        S \in {T \in SUBSET NormalNames : Cardinality(T) <= 1}}

\* the TUIApp value before any key (QuickSelect unless manage_mode)
NoApp == [mode |-> "QuickSelect"]
NoCall == [op |-> "none", name |-> <<>>, template |-> None, force |-> FALSE,
           tags |-> <<>>, res |-> Ok]
NoLast == [key |-> [code |-> "None", c |-> ""], by |-> "nothing", res |-> Ok, edit |-> NoneV]

Called(op, name, template, force, tags, res) ==
    [op |-> op, name |-> name, template |-> template, force |-> force,
     tags |-> tags, res |-> res]

World == Sys(files, clipboard, {})

TuiIdle == UNCHANGED <<app, raw, alt, ret, last>>

Returned(out, c) ==
    /\ pc = "idle"
    /\ pc' = "returned"
    /\ Cardinality(DOMAIN out.sys.files) <= MaxFiles
    /\ files' = out.sys.files
    /\ clipboard' = out.sys.clipboard
    /\ effects' = out.sys.effects
    /\ call' = c
    /\ TuiIdle

\* the call record of list_prompts carries the filter in place of the tag list
AppListPrompts ==
    \E filter \in Filters, list_ok \in BOOLEAN :
        Returned(list_prompts(World, filter, list_ok),
                 Called("list_prompts", <<>>, None, FALSE, filter,
                        list_prompts(World, filter, list_ok).res))

AppGetPrompt ==
    \E name \in AppNames :
        Returned(get_prompt(World, name),
                 Called("get_prompt", name, None, FALSE, <<>>, get_prompt(World, name).res))

AppCopyPrompt ==
    \E name \in AppNames, clip_ok \in BOOLEAN :
        Returned(copy_prompt(World, name, clip_ok),
                 Called("copy_prompt", name, None, FALSE, <<>>, copy_prompt(World, name, clip_ok).res))

AppCreatePrompt ==
    \E name \in AppNames, template \in Templates :
        Returned(create_prompt(World, name, template),
                 Called("create_prompt", name, template, FALSE, <<>>,
                        create_prompt(World, name, template).res))

AppEditPrompt ==
    \E name \in AppNames, editor_ok \in BOOLEAN :
        Returned(edit_prompt(World, name, editor_ok),
                 Called("edit_prompt", name, None, FALSE, <<>>, edit_prompt(World, name, editor_ok).res))

AppDeletePrompt ==
    \E name \in AppNames, force \in BOOLEAN :
        Returned(delete_prompt(World, name, force),
                 Called("delete_prompt", name, None, force, <<>>, delete_prompt(World, name, force).res))

AppUpdatePromptTags ==
    \E name \in AppNames, tags \in TagLists, read_ok \in BOOLEAN, header_ok \in BOOLEAN :
        Returned(update_prompt_tags(World, name, tags, read_ok, header_ok),
                 Called("update_prompt_tags", name, None, FALSE, tags,
                        update_prompt_tags(World, name, tags, read_ok, header_ok).res))

\* the command's process ends; the next command starts a new one
AppExit ==
    /\ pc = "returned"
    /\ pc' = "idle"
    /\ call' = NoCall
    /\ effects' = {}
    /\ UNCHANGED <<files, clipboard>>
    /\ TuiIdle

InitApp ==
    /\ files \in InitStores
    /\ clipboard = None
    /\ effects = {}
    /\ call = NoCall
    /\ app = NoApp
    /\ pc = "idle"
    /\ raw = FALSE
    /\ alt = FALSE
    /\ ret = None
    /\ last = NoLast

NextApp ==
    \/ AppListPrompts
    \/ AppGetPrompt
    \/ AppCopyPrompt
    \/ AppCreatePrompt
    \/ AppEditPrompt
    \/ AppDeletePrompt
    \/ AppUpdatePromptTags
    \/ AppExit

SpecApp == InitApp /\ [][NextApp]_vars

(***************************************************************************)
(* Claims about the application operations, checked under SpecApp.         *)
(***************************************************************************)
AppStep(op) == pc = "idle" /\ pc' = "returned" /\ call'.op = op

IsErr(res, variant) == ~res.ok /\ res.err.variant = variant

OthersUnchanged(path) ==
    \A p \in (DOMAIN files \cup DOMAIN files') \ {path} :
        p \in DOMAIN files /\ p \in DOMAIN files' /\ files'[p] = files[p]

\* C7: delete_prompt(name, force) on an existing prompt: without force it returns a
\* validation error whose message mentions --force and no file changes; with force
\* it succeeds, the prompt's file is gone and every other file is as it was.
C7_DeleteNeedsForce ==
    [][(AppStep("delete_prompt") /\ FileName(call'.name) \in DOMAIN files) =>
          IF call'.force
          THEN /\ call'.res.ok
               /\ FileName(call'.name) \notin DOMAIN files'
               /\ OthersUnchanged(FileName(call'.name))
          ELSE /\ ~call'.res.ok
               /\ call'.res.err.kind = "Validation"
               /\ "--force" \in Range(call'.res.err.text)
               /\ files' = files]_vars

\* a forced delete succeeded, its file is gone and another file is still there
C7_Witness ==
    /\ pc = "returned"
    /\ call.op = "delete_prompt"
    /\ call.force
    /\ call.res.ok
    /\ FileName(call.name) \notin DOMAIN files
    /\ effects = {<<"delete", FileName(call.name)>>}
    /\ DOMAIN files # {}

\* a prompt whose normalized name equals normalize(name) is in the store
NormalizedNameTaken(name) == \E p \in DOMAIN files : Normalize(Stem(p)) = Normalize(name)

CreatesExactly(path) ==
    /\ path \notin DOMAIN files
    /\ DOMAIN files' = DOMAIN files \cup {path}
    /\ OthersUnchanged(path)

\* C8 as stated: create_prompt fails with AlreadyExists, the store unchanged, exactly
\* when the normalized name is taken; otherwise it creates exactly one new file
\* named <normalize(name)>.md, whatever the template.
C8_AsStated ==
    [][AppStep("create_prompt") =>
          IF NormalizedNameTaken(call'.name)
          THEN IsErr(call'.res, "AlreadyExists") /\ files' = files
          ELSE call'.res.ok /\ CreatesExactly(FileName(Normalize(call'.name)))]_vars

\* C8, amended: create_prompt fails with AlreadyExists, the store unchanged, exactly
\* when the normalized name is taken; otherwise, when the template is absent or one
\* the generator knows, it creates exactly one new file named <normalize(name)>.md
\* (and with an unknown template it fails with another error and creates nothing).
\* A name whose create succeeded is taken afterwards, so a later create of a name
\* with the same normal form fails with AlreadyExists.
C8_CreateOrAlreadyExists ==
    [][AppStep("create_prompt") =>
          /\ IsErr(call'.res, "AlreadyExists") <=> NormalizedNameTaken(call'.name)
          /\ IF NormalizedNameTaken(call'.name)
             THEN files' = files
             ELSE IF call'.template \in KnownTemplates \cup {None}
             THEN /\ call'.res.ok
                  /\ CreatesExactly(FileName(Normalize(call'.name)))
                  /\ \E p \in DOMAIN files' : Normalize(Stem(p)) = Normalize(call'.name)
             ELSE ~call'.res.ok /\ files' = files]_vars

\* a create failed with AlreadyExists for a name that differs from the existing
\* prompt's name only in case or in space versus '-'
C8_Witness ==
    /\ pc = "returned"
    /\ call.op = "create_prompt"
    /\ IsErr(call.res, "AlreadyExists")
    /\ FileName(call.name) \notin DOMAIN files
    /\ FileName(Normalize(call.name)) \in DOMAIN files

NameAddressed == {"get_prompt", "copy_prompt", "edit_prompt", "delete_prompt", "update_prompt_tags"}

\* C9: a name-addressed operation on a name no prompt has returns NotFound and does
\* nothing: no file is read, written or deleted, the clipboard is not written and
\* the editor is not launched; for delete_prompt this holds with and without force.
C9_NotFoundNoEffect ==
    [][(pc = "idle" /\ pc' = "returned" /\ call'.op \in NameAddressed
          /\ \A p \in DOMAIN files : Stem(p) # call'.name) =>
          /\ IsErr(call'.res, "NotFound")
          /\ call'.res.err.kind = "Prompt"
          /\ effects' = {}
          /\ files' = files
          /\ clipboard' = clipboard]_vars

\* delete_prompt without force on a missing name answered NotFound
C9_Witness ==
    /\ pc = "returned"
    /\ call.op = "delete_prompt"
    /\ ~call.force
    /\ IsErr(call.res, "NotFound")
    /\ FileName(call.name) \notin DOMAIN files
    /\ effects = {}

\* C10: normalization is idempotent on every name given to create_prompt, and every
\* file in the store (the initial ones and those create_prompt made) has a stem in
\* normal form: no upper-case letter and no space.
C10_NormalForm ==
    /\ \A p \in DOMAIN files : InNormalForm(Stem(p)) /\ Normalize(Stem(p)) = Stem(p)
    /\ (pc = "returned" /\ call.op = "create_prompt") =>
          /\ Normalize(Normalize(call.name)) = Normalize(call.name)
          /\ InNormalForm(Normalize(call.name))
          /\ call.res.ok => FileName(Normalize(call.name)) \in DOMAIN files

\* create_prompt made a file for a name that was not in normal form
C10_Witness ==
    /\ pc = "returned"
    /\ call.op = "create_prompt"
    /\ call.res.ok
    /\ ~InNormalForm(call.name)
    /\ effects = {<<"write", FileName(Normalize(call.name))>>}

(***************************************************************************)
(* TUIApp: the application state the router acts on. Its code is not among *)
(* the source files; the fields and operations follow spec.md 3, 4.2-4.4.  *)
(* An operation takes and returns the world w = [app, sys]: the TUIApp     *)
(* value and the outside world its application object acts on.             *)
(***************************************************************************)
CharOrder == <<" ", "-", "/", "A", "N", "Y", "a", "c", "d", "e", "f", "h", "j", "k",
               "l", "m", "n", "q", "r", "t", "y">>
Rank(c) == CHOOSE i \in 1..Len(CharOrder) : CharOrder[i] = c

RECURSIVE LexLess(_, _)
LexLess(s, t) ==
    IF t = <<>> THEN FALSE
    ELSE IF s = <<>> THEN TRUE
    ELSE IF Head(s) = Head(t) THEN LexLess(Tail(s), Tail(t))
    ELSE Rank(Head(s)) < Rank(Head(t))

RECURSIVE SortNames(_)
SortNames(S) ==
    IF S = {} THEN <<>>
    ELSE LET least == CHOOSE n \in S : \A o \in S \ {n} : LexLess(n, o) IN
         <<least>> \o SortNames(S \ {least})

\* the index All: one record per prompt file, in ascending order of name
ScanPrompts(fs) ==
    LET names == SortNames({Stem(p) : p \in DOMAIN fs}) IN
    [i \in 1..Len(names) |-> Metadata(fs, FileName(names[i]))]

HasSubstring(s, q) == \E i \in 0..Len(s) : i + Len(q) <= Len(s) /\ SubSeq(s, i + 1, i + Len(q)) = q

\* the search filter: case-insensitive substring of the name; an empty query matches all
MatchesQuery(m, query) == HasSubstring(ToLowercase(m.name), ToLowercase(query))

\* the tag filter: the record's tag list contains the tag
MatchesTag(m, tag_filter) == tag_filter.some => tag_filter.val \in Range(m.tags)

\* Visible: the records of All that pass the tag filter and the search query
Visible(a) ==
    LET Keep(m) == MatchesTag(m, a.tag_filter) /\ MatchesQuery(m, a.search_query) IN
    SelectSeq(a.prompts, Keep)

NamesOf(list) == [i \in 1..Len(list) |-> list[i].name]
IndexOf(names, n) == CHOOSE i \in 1..Len(names) : names[i] = n

SelectedName(a) ==
    IF a.selected.some /\ a.selected.val < Len(Visible(a))
    THEN Some(Visible(a)[a.selected.val + 1].name)
    ELSE NoneV

\* the selection put back on the first visible record after every recompute
Reselect_first(old, selected, new) ==
    IF new = <<>> THEN NoneV ELSE Some(0)

\* the selection after Visible changed from old to new (spec.md 4.2): follow the
\* selected record; else the nearest earlier survivor; else index 0; none when empty
Reselect(old, selected, new) ==
    IF new = <<>> THEN NoneV
    ELSE IF ~selected.some \/ selected.val >= Len(old) THEN Some(0)
    ELSE LET earlier == {i \in 1..(selected.val + 1) : old[i] \in Range(new)} IN
         IF earlier = {} THEN Some(0)
         ELSE Some(IndexOf(new, old[CHOOSE i \in earlier : \A j \in earlier : j <= i]) - 1)

\* a change of the index or of the criteria, followed by the recompute of Visible
Rebuilt(a, b) == [b EXCEPT !.selected = Reselect(NamesOf(Visible(a)), a.selected, NamesOf(Visible(b)))]

\* reload_prompts: the index scanned again from the store
Reloaded(w) == [w EXCEPT !.app = Rebuilt(w.app, [w.app EXCEPT !.prompts = ScanPrompts(w.sys.files)])]

WOut(w, res) == [w |-> w, res |-> res]

\* TUIApp::new_with_mode_and_config
NewApp(fs, mode) ==
    [mode |-> mode,
     should_quit |-> FALSE,
     error_message |-> NoneV,
     prompts |-> ScanPrompts(fs),
     tag_filter |-> NoneV,
     search_active |-> FALSE,
     search_query |-> <<>>,
     selected |-> IF DOMAIN fs = {} THEN NoneV ELSE Some(0),
     confirmation |-> NoneV,
     tag_filter_dialog |-> NoneV,
     tag_dialog |-> NoneV,
     create_dialog |-> NoneV,
     pending_action |-> NoneV]

has_error(a) == a.error_message.some
clear_error(a) == [a EXCEPT !.error_message = NoneV]
set_error(a, message) == [a EXCEPT !.error_message = Some(message)]

quit(a) == [a EXCEPT !.should_quit = TRUE]
toggle_mode(a) ==
    [a EXCEPT !.mode = IF @ = "QuickSelect" THEN "Management" ELSE "QuickSelect"]

\* next / previous: the selection moved within Visible, clamped at the ends
next(a) ==
    IF a.selected.some /\ a.selected.val + 1 < Len(Visible(a))
    THEN [a EXCEPT !.selected = Some(a.selected.val + 1)]
    ELSE a
previous(a) ==
    IF a.selected.some /\ a.selected.val > 0
    THEN [a EXCEPT !.selected = Some(a.selected.val - 1)]
    ELSE a

is_search_active(a) == a.search_active
activate_search(a) == [a EXCEPT !.search_active = TRUE]
set_search_query(a, query) == Rebuilt(a, [a EXCEPT !.search_query = query])
deactivate_search(a) == Rebuilt(a, [a EXCEPT !.search_active = FALSE, !.search_query = <<>>])

set_tag_filter(a, tag) == Rebuilt(a, [a EXCEPT !.tag_filter = Some(tag)])
clear_tag_filter(a) == Rebuilt(a, [a EXCEPT !.tag_filter = NoneV])

set_pending_action(a, action) == [a EXCEPT !.pending_action = action]

\* copy_selected_to_clipboard: the body of the selected prompt handed to the
\* clipboard; with nothing selected it copies nothing and returns Ok (spec.md 9)
copy_selected_to_clipboard(w, clip_ok) ==
    LET name == SelectedName(w.app) IN
    IF ~name.some THEN WOut(w, Ok)
    ELSE LET out == copy_prompt(w.sys, name.val, clip_ok) IN
         WOut([w EXCEPT !.sys = out.sys], out.res)

\* edit_selected: the editor on the selected prompt's file, then the store re-read
edit_selected(w, editor_ok) ==
    LET name == SelectedName(w.app) IN
    IF ~name.some THEN WOut(w, Ok)
    ELSE LET out == edit_prompt(w.sys, name.val, editor_ok) IN
         IF out.res.ok THEN WOut(Reloaded([w EXCEPT !.sys = out.sys]), Ok)
         ELSE WOut([w EXCEPT !.sys = out.sys], out.res)

(* the confirmation dialog *)
is_showing_confirmation(a) == a.confirmation.some
show_delete_confirmation(a) ==
    IF SelectedName(a).some THEN [a EXCEPT !.confirmation = Some(SelectedName(a).val)] ELSE a
cancel_confirmation(a) == [a EXCEPT !.confirmation = NoneV]

\* confirm_action: the dialog is destroyed and its outcome applied: the prompt is
\* deleted with force and the store scanned again
confirm_action(w) ==
    IF ~w.app.confirmation.some THEN WOut(w, Ok)
    ELSE LET closed == [w EXCEPT !.app.confirmation = NoneV]
             out == delete_prompt(w.sys, w.app.confirmation.val, TRUE)
         IN  IF out.res.ok THEN WOut(Reloaded([closed EXCEPT !.sys = out.sys]), Ok)
             ELSE WOut([closed EXCEPT !.sys = out.sys], out.res)

(* the tag-filter dialog *)
RECURSIVE AllTags(_)
AllTags(list) == IF list = <<>> THEN {} ELSE Range(Head(list).tags) \cup AllTags(Tail(list))

TagFilterDialog_new(tags) == [tags |-> tags, selected_index |-> 0]
is_tag_filter_dialog_active(a) == a.tag_filter_dialog.some
open_tag_filter(a) ==
    [a EXCEPT !.tag_filter_dialog = Some(TagFilterDialog_new(SortNames(AllTags(a.prompts))))]
close_tag_filter(a) == [a EXCEPT !.tag_filter_dialog = NoneV]
move_up(d) == IF d.selected_index > 0 THEN [d EXCEPT !.selected_index = @ - 1] ELSE d
move_down(d) == IF d.selected_index + 1 < Len(d.tags) THEN [d EXCEPT !.selected_index = @ + 1] ELSE d
get_selected_tag(d) ==
    IF d.selected_index < Len(d.tags) THEN Some(d.tags[d.selected_index + 1]) ELSE NoneV

(* the tag-edit dialog *)
TagManagementDialog_new(tags) ==
    [tags |-> tags, input_mode |-> "ViewTags", input |-> <<>>, selected_index |-> 0]
is_tag_management_active(a) == a.tag_dialog.some
start_adding_tag(d) == [d EXCEPT !.input_mode = "AddingTag", !.input = <<>>]
start_removing_tag(d) == [d EXCEPT !.input_mode = "RemovingTag", !.selected_index = 0]
cancel_input(d) == [d EXCEPT !.input_mode = "ViewTags", !.input = <<>>]
get_new_tag(d) == IF d.input # <<>> THEN Some(d.input) ELSE NoneV
get_selected_tag_for_removal(d) == get_selected_tag(d)
tag_add_char(d, c) == [d EXCEPT !.input = Append(@, c)]
tag_delete_char(d) == [d EXCEPT !.input = IF @ = <<>> THEN @ ELSE SubSeq(@, 1, Len(@) - 1)]

get_selected_prompt_tags(a) ==
    IF a.selected.some /\ a.selected.val < Len(Visible(a))
    THEN Visible(a)[a.selected.val + 1].tags
    ELSE <<>>
open_tag_management(a) ==
    IF SelectedName(a).some
    THEN [a EXCEPT !.tag_dialog = Some(TagManagementDialog_new(get_selected_prompt_tags(a)))]
    ELSE a
close_tag_management(a) == [a EXCEPT !.tag_dialog = NoneV]

Without(tags, tag) == LET Keep(t) == t # tag IN SelectSeq(tags, Keep)

\* add_tag / remove_tag (selected, tag): read the file, update the header, write;
\* the tag list is kept without duplicates; then the store is scanned again. The
\* files of the TUI's store are readable and their headers parse.
retag_selected(w, tags) ==
    LET name == SelectedName(w.app) IN
    IF ~name.some THEN WOut(w, Fail(NotFound(<<>>)))
    ELSE LET out == update_prompt_tags(w.sys, name.val, tags, TRUE, TRUE) IN
         IF out.res.ok THEN WOut(Reloaded([w EXCEPT !.sys = out.sys]), Ok)
         ELSE WOut([w EXCEPT !.sys = out.sys], out.res)
add_tag_to_selected(w, tag) ==
    LET tags == get_selected_prompt_tags(w.app) IN
    retag_selected(w, IF tag \in Range(tags) THEN tags ELSE Append(tags, tag))
remove_tag_from_selected(w, tag) ==
    retag_selected(w, Without(get_selected_prompt_tags(w.app), tag))

(* the create dialog *)
DialogTemplates == <<None, "basic">>

CreateDialog_new == [filename |-> <<>>, template_index |-> 0, current_field |-> "Filename"]
is_create_dialog_active(a) == a.create_dialog.some
create_new_prompt(a) == [a EXCEPT !.create_dialog = Some(CreateDialog_new)]
close_create_dialog(a) == [a EXCEPT !.create_dialog = NoneV]
next_field(d) ==
    [d EXCEPT !.current_field = IF @ = "Filename" THEN "Template" ELSE "Filename"]
get_normalized_filename(d) == Normalize(d.filename)
is_valid(d) == get_normalized_filename(d) # <<>>
previous_template(d) == IF d.template_index > 0 THEN [d EXCEPT !.template_index = @ - 1] ELSE d
next_template(d) ==
    IF d.template_index + 1 < Len(DialogTemplates) THEN [d EXCEPT !.template_index = @ + 1] ELSE d
add_char(d, c) == [d EXCEPT !.filename = Append(@, c)]
delete_char(d) == [d EXCEPT !.filename = IF @ = <<>> THEN @ ELSE SubSeq(@, 1, Len(@) - 1)]

\* confirm_create: the prompt created from the dialog's fields; on success the
\* dialog is destroyed and the store scanned again, on failure the dialog stays
confirm_create(w) ==
    IF ~w.app.create_dialog.some THEN WOut(w, Ok)
    ELSE LET d == w.app.create_dialog.val
             out == create_prompt(w.sys, get_normalized_filename(d),
                                  DialogTemplates[d.template_index + 1])
         IN  IF out.res.ok
             THEN WOut(Reloaded([w EXCEPT !.sys = out.sys, !.app.create_dialog = NoneV]), Ok)
             ELSE WOut([w EXCEPT !.sys = out.sys], out.res)

(***************************************************************************)
(* EventHandler::handle_event (src/src/presentation/tui/runner.rs:47-367). *)
(* A key is its KeyCode; each branch of the router is an operator from     *)
(* the world and the key to the world after it and the Result returned.   *)
(***************************************************************************)
Char(c) == [code |-> "Char", c |-> c]
Special(code) == [code |-> code, c |-> ""]

CharKeys == {"y", "Y", "n", "N", "q", "j", "k", "m", "e", "d", "t", "f", "/", "c", "a", "r",
             "h", "l", "é"}
SpecialKeys == {"Esc", "Enter", "Tab", "Backspace", "Up", "Down", "Left", "Right", "F1"}
Keys == {Char(c) : c \in CharKeys} \cup {Special(code) : code \in SpecialKeys}
\* an event that is not Event::Key
Resize == Special("Resize")
Events == Keys \cup {Resize}

\* runner.rs:50-53
HandleBanner(w, key) == WOut([w EXCEPT !.app = clear_error(w.app)], Ok)

\* the confirmation dialog taking Enter for a yes as well
HandleConfirmation_enter_confirms(w, key) ==
    IF key \in {Char("y"), Char("Y"), Special("Enter")} THEN confirm_action(w)
    ELSE IF key \in {Char("n"), Char("N"), Special("Esc")}
    THEN WOut([w EXCEPT !.app = cancel_confirmation(w.app)], Ok)
    ELSE WOut(w, Ok)

\* runner.rs:56-67
HandleConfirmation(w, key) ==
    IF key \in {Char("y"), Char("Y")} THEN confirm_action(w)
    ELSE IF key \in {Char("n"), Char("N"), Special("Esc")}
    THEN WOut([w EXCEPT !.app = cancel_confirmation(w.app)], Ok)
    ELSE WOut(w, Ok)

\* the tag-filter dialog dropping the filter on Esc as it does on c
HandleTagFilter_esc_clears(w, key) ==
    LET d == w.app.tag_filter_dialog.val
        should_close == key \in {Special("Esc"), Special("Enter"), Char("c")}
        selected_tag == IF key = Special("Enter") THEN get_selected_tag(d) ELSE NoneV
        should_clear_filter == key \in {Char("c"), Special("Esc")}
        d1 == IF key = Special("Up") THEN move_up(d)
              ELSE IF key = Special("Down") THEN move_down(d)
              ELSE d
        a1 == [w.app EXCEPT !.tag_filter_dialog = Some(d1)]
        a2 == IF should_close THEN close_tag_filter(a1) ELSE a1
        a3 == IF selected_tag.some THEN set_tag_filter(a2, selected_tag.val) ELSE a2
        a4 == IF should_clear_filter THEN clear_tag_filter(a3) ELSE a3
    IN  WOut([w EXCEPT !.app = a4], Ok)

\* runner.rs:70-111
HandleTagFilter(w, key) ==
    LET d == w.app.tag_filter_dialog.val
        should_close == key \in {Special("Esc"), Special("Enter"), Char("c")}
        selected_tag == IF key = Special("Enter") THEN get_selected_tag(d) ELSE NoneV
        should_clear_filter == key = Char("c")
        d1 == IF key = Special("Up") THEN move_up(d)
              ELSE IF key = Special("Down") THEN move_down(d)
              ELSE d
        a1 == [w.app EXCEPT !.tag_filter_dialog = Some(d1)]
        a2 == IF should_close THEN close_tag_filter(a1) ELSE a1
        a3 == IF selected_tag.some THEN set_tag_filter(a2, selected_tag.val) ELSE a2
        a4 == IF should_clear_filter THEN clear_tag_filter(a3) ELSE a3
    IN  WOut([w EXCEPT !.app = a4], Ok)

\* the tag-edit dialog with the bindings of ViewTags for a and r live while typing
TagDialogInput_view_keys_while_typing(d, key) ==
    CASE d.input_mode = "ViewTags" ->
            IF key = Special("Esc") THEN d
            ELSE IF key = Char("a") THEN start_adding_tag(d)
            ELSE IF key = Char("r") THEN start_removing_tag(d)
            ELSE d
      [] d.input_mode = "AddingTag" ->
            IF key = Special("Esc") THEN cancel_input(d)
            ELSE IF key = Special("Enter") THEN cancel_input(d)
            ELSE IF key = Char("r") THEN start_removing_tag(d)
            ELSE IF key.code = "Char" THEN tag_add_char(d, key.c)
            ELSE IF key = Special("Backspace") THEN tag_delete_char(d)
            ELSE d
      [] d.input_mode = "RemovingTag" ->
            IF key = Special("Esc") THEN cancel_input(d)
            ELSE IF key = Special("Up") THEN move_up(d)
            ELSE IF key = Special("Down") THEN move_down(d)
            ELSE IF key = Special("Enter") THEN cancel_input(d)
            ELSE d

\* runner.rs:124-177: the dialog's own input
TagDialogInput(d, key) ==
    CASE d.input_mode = "ViewTags" ->
            IF key = Special("Esc") THEN d
            ELSE IF key = Char("a") THEN start_adding_tag(d)
            ELSE IF key = Char("r") THEN start_removing_tag(d)
            ELSE d
      [] d.input_mode = "AddingTag" ->
            IF key = Special("Esc") THEN cancel_input(d)
            ELSE IF key = Special("Enter") THEN cancel_input(d)
            ELSE IF key.code = "Char" THEN tag_add_char(d, key.c)
            ELSE IF key = Special("Backspace") THEN tag_delete_char(d)
            ELSE d
      [] d.input_mode = "RemovingTag" ->
            IF key = Special("Esc") THEN cancel_input(d)
            ELSE IF key = Special("Up") THEN move_up(d)
            ELSE IF key = Special("Down") THEN move_down(d)
            ELSE IF key = Special("Enter") THEN cancel_input(d)
            ELSE d

\* the tag-edit dialog kept as its own input left it, without the refresh of 196-200
HandleTagManagement_no_refresh(w, key) ==
    LET d == w.app.tag_dialog.val
        should_close == d.input_mode = "ViewTags" /\ key = Special("Esc")
        new_tag_to_add ==
            IF d.input_mode = "AddingTag" /\ key = Special("Enter") THEN get_new_tag(d) ELSE NoneV
        tag_to_remove ==
            IF d.input_mode = "RemovingTag" /\ key = Special("Enter")
            THEN get_selected_tag_for_removal(d) ELSE NoneV
        w1 == [w EXCEPT !.app.tag_dialog = Some(TagDialogInput(d, key))]
        w2 == IF should_close THEN [w1 EXCEPT !.app = close_tag_management(w1.app)] ELSE w1
        w3 == IF new_tag_to_add.some THEN add_tag_to_selected(w2, new_tag_to_add.val).w ELSE w2
        w4 == IF tag_to_remove.some THEN remove_tag_from_selected(w3, tag_to_remove.val).w ELSE w3
    IN  WOut(w4, Ok)

\* runner.rs:114-204; a failed add or remove is printed to stderr and dropped
HandleTagManagement(w, key) ==
    LET d == w.app.tag_dialog.val
        should_close == d.input_mode = "ViewTags" /\ key = Special("Esc")
        new_tag_to_add ==
            IF d.input_mode = "AddingTag" /\ key = Special("Enter") THEN get_new_tag(d) ELSE NoneV
        tag_to_remove ==
            IF d.input_mode = "RemovingTag" /\ key = Special("Enter")
            THEN get_selected_tag_for_removal(d) ELSE NoneV
        should_refresh == d.input_mode \in {"AddingTag", "RemovingTag"} /\ key = Special("Enter")
        w1 == [w EXCEPT !.app.tag_dialog = Some(TagDialogInput(d, key))]
        w2 == IF should_close THEN [w1 EXCEPT !.app = close_tag_management(w1.app)] ELSE w1
        w3 == IF new_tag_to_add.some THEN add_tag_to_selected(w2, new_tag_to_add.val).w ELSE w2
        w4 == IF tag_to_remove.some THEN remove_tag_from_selected(w3, tag_to_remove.val).w ELSE w3
        w5 == IF should_refresh
              THEN [w4 EXCEPT !.app.tag_dialog =
                       Some(TagManagementDialog_new(get_selected_prompt_tags(w4.app)))]
              ELSE w4
    IN  WOut(w5, Ok)

\* the create dialog's input with the arm for any character above those for h and l
CreateDialogInput_chars_first(d, key) ==
    IF key = Special("Esc") THEN d
    ELSE IF key = Special("Tab") THEN next_field(d)
    ELSE IF key = Special("Enter") THEN d
    ELSE IF key = Special("Left")
    THEN (IF d.current_field = "Template" THEN previous_template(d) ELSE d)
    ELSE IF key = Special("Right")
    THEN (IF d.current_field = "Template" THEN next_template(d) ELSE d)
    ELSE IF key.code = "Char"
    THEN (IF d.current_field = "Filename" THEN add_char(d, key.c) ELSE d)
    ELSE IF key = Special("Backspace")
    THEN (IF d.current_field = "Filename" THEN delete_char(d) ELSE d)
    ELSE d

\* runner.rs:213-262: the dialog's own input
CreateDialogInput(d, key) ==
    IF key = Special("Esc") THEN d
    ELSE IF key = Special("Tab") THEN next_field(d)
    ELSE IF key = Special("Enter") THEN d
    ELSE IF key = Special("Left")
    THEN (IF d.current_field = "Template" THEN previous_template(d) ELSE d)
    ELSE IF key = Special("Right")
    THEN (IF d.current_field = "Template" THEN next_template(d) ELSE d)
    ELSE IF key = Char("h")
    THEN (IF d.current_field = "Template" THEN previous_template(d) ELSE add_char(d, "h"))
    ELSE IF key = Char("l")
    THEN (IF d.current_field = "Template" THEN next_template(d) ELSE add_char(d, "l"))
    ELSE IF key.code = "Char"
    THEN (IF d.current_field = "Filename" THEN add_char(d, key.c) ELSE d)
    ELSE IF key = Special("Backspace")
    THEN (IF d.current_field = "Filename" THEN delete_char(d) ELSE d)
    ELSE d

\* the create dialog confirming on Enter without asking is_valid
HandleCreateDialog_confirms_invalid(w, key) ==
    LET d == w.app.create_dialog.val
        should_close == key = Special("Esc")
        should_confirm == key = Special("Enter")
        w1 == [w EXCEPT !.app.create_dialog = Some(CreateDialogInput(d, key))]
        w2 == IF should_close THEN [w1 EXCEPT !.app = close_create_dialog(w1.app)] ELSE w1
        created == confirm_create(w2)
        w3 == IF should_confirm
              THEN IF created.res.ok THEN created.w
                   ELSE [created.w EXCEPT !.app =
                            set_error(created.w.app, <<"Failed to create prompt:", created.res.err>>)]
              ELSE w2
    IN  WOut(w3, Ok)

\* the create dialog handing a failed create on with `?` instead of showing it
HandleCreateDialog_propagates(w, key) ==
    LET d == w.app.create_dialog.val
        should_close == key = Special("Esc")
        should_confirm == key = Special("Enter") /\ is_valid(d)
        w1 == [w EXCEPT !.app.create_dialog = Some(CreateDialogInput(d, key))]
        w2 == IF should_close THEN [w1 EXCEPT !.app = close_create_dialog(w1.app)] ELSE w1
        created == confirm_create(w2)
    IN  IF should_confirm THEN created ELSE WOut(w2, Ok)

\* runner.rs:207-275; a failed create becomes the error banner
HandleCreateDialog(w, key) ==
    LET d == w.app.create_dialog.val
        should_close == key = Special("Esc")
        should_confirm == key = Special("Enter") /\ is_valid(d)
        w1 == [w EXCEPT !.app.create_dialog = Some(CreateDialogInput(d, key))]
        w2 == IF should_close THEN [w1 EXCEPT !.app = close_create_dialog(w1.app)] ELSE w1
        created == confirm_create(w2)
        w3 == IF should_confirm
              THEN IF created.res.ok THEN created.w
                   ELSE [created.w EXCEPT !.app =
                            set_error(created.w.app, <<"Failed to create prompt:", created.res.err>>)]
              ELSE w2
    IN  WOut(w3, Ok)

\* Enter that quits whether or not the copy succeeded (the `?` dropped)
CopyAndQuit_quits_regardless(w, clip_ok) ==
    IF w.app.mode = "QuickSelect"
    THEN LET copied == copy_selected_to_clipboard(w, clip_ok) IN
         WOut([copied.w EXCEPT !.app = quit(copied.w.app)], copied.res)
    ELSE WOut(w, Ok)

\* Enter that copies and quits whatever the mode (the mode test dropped)
CopyAndQuit_ignores_mode(w, clip_ok) ==
    LET copied == copy_selected_to_clipboard(w, clip_ok) IN
    IF copied.res.ok THEN WOut([copied.w EXCEPT !.app = quit(copied.w.app)], Ok)
    ELSE copied

\* runner.rs:294-300 and 323-330: Enter in QuickSelect copies and quits
CopyAndQuit(w, clip_ok) ==
    IF w.app.mode = "QuickSelect"
    THEN LET copied == copy_selected_to_clipboard(w, clip_ok) IN
         IF copied.res.ok THEN WOut([copied.w EXCEPT !.app = quit(copied.w.app)], Ok)
         ELSE copied
    ELSE WOut(w, Ok)

\* the search letting q through to the top-level binding
HandleSearch_q_quits(w, key, clip_ok) ==
    IF key = Special("Esc") THEN WOut([w EXCEPT !.app = deactivate_search(w.app)], Ok)
    ELSE IF key = Char("q") THEN WOut([w EXCEPT !.app = quit(w.app)], Ok)
    ELSE IF key.code = "Char"
    THEN WOut([w EXCEPT !.app = set_search_query(w.app, Append(w.app.search_query, key.c))], Ok)
    ELSE IF key = Special("Backspace")
    THEN (IF w.app.search_query # <<>>
          THEN LET new_query == SliceTo(w.app.search_query, str_len(w.app.search_query) - 1) IN
               IF new_query.some
               THEN WOut([w EXCEPT !.app = set_search_query(w.app, new_query.val)], Ok)
               ELSE WOut(w, Fail(Panic))
          ELSE WOut(w, Ok))
    ELSE IF key = Special("Enter") THEN CopyAndQuit(w, clip_ok)
    ELSE WOut(w, Ok)

\* runner.rs:278-304
HandleSearch(w, key, clip_ok) ==
    IF key = Special("Esc") THEN WOut([w EXCEPT !.app = deactivate_search(w.app)], Ok)
    ELSE IF key.code = "Char"
    THEN WOut([w EXCEPT !.app = set_search_query(w.app, Append(w.app.search_query, key.c))], Ok)
    ELSE IF key = Special("Backspace")
    THEN (IF w.app.search_query # <<>>
          THEN LET new_query == SliceTo(w.app.search_query, str_len(w.app.search_query) - 1) IN
               IF new_query.some
               THEN WOut([w EXCEPT !.app = set_search_query(w.app, new_query.val)], Ok)
               ELSE WOut(w, Fail(Panic))
          ELSE WOut(w, Ok))
    ELSE IF key = Special("Enter") THEN CopyAndQuit(w, clip_ok)
    ELSE WOut(w, Ok)

\* the top level moving the selection down without the clamp of next
HandleNormal_down_unclamped(w, key, clip_ok) ==
    LET a == w.app
        management == a.mode = "Management"
        To(b) == WOut([w EXCEPT !.app = b], Ok)
    IN  IF key = Char("/") THEN To(activate_search(a))
        ELSE IF key \in {Special("Esc"), Char("q")} THEN To(quit(a))
        ELSE IF key \in {Special("Down"), Char("j")}
        THEN To(IF a.selected.some THEN [a EXCEPT !.selected = Some(a.selected.val + 1)] ELSE a)
        ELSE IF key \in {Special("Up"), Char("k")} THEN To(previous(a))
        ELSE IF key = Special("Enter") THEN CopyAndQuit(w, clip_ok)
        ELSE IF key = Char("m") THEN To(toggle_mode(a))
        ELSE IF key = Char("e")
        THEN To(IF management THEN set_pending_action(a, Some("Edit")) ELSE a)
        ELSE IF key = Char("d") THEN To(IF management THEN show_delete_confirmation(a) ELSE a)
        ELSE IF key = Char("n") THEN To(IF management THEN create_new_prompt(a) ELSE a)
        ELSE IF key = Char("t") THEN To(IF management THEN open_tag_management(a) ELSE a)
        ELSE IF key = Char("f") THEN To(open_tag_filter(a))
        ELSE To(a)

\* the top level with e not asking for Management mode
HandleNormal_edit_in_any_mode(w, key, clip_ok) ==
    LET a == w.app
        management == a.mode = "Management"
        To(b) == WOut([w EXCEPT !.app = b], Ok)
    IN  IF key = Char("/") THEN To(activate_search(a))
        ELSE IF key \in {Special("Esc"), Char("q")} THEN To(quit(a))
        ELSE IF key \in {Special("Down"), Char("j")} THEN To(next(a))
        ELSE IF key \in {Special("Up"), Char("k")} THEN To(previous(a))
        ELSE IF key = Special("Enter") THEN CopyAndQuit(w, clip_ok)
        ELSE IF key = Char("m") THEN To(toggle_mode(a))
        ELSE IF key = Char("e") THEN To(set_pending_action(a, Some("Edit")))
        ELSE IF key = Char("d") THEN To(IF management THEN show_delete_confirmation(a) ELSE a)
        ELSE IF key = Char("n") THEN To(IF management THEN create_new_prompt(a) ELSE a)
        ELSE IF key = Char("t") THEN To(IF management THEN open_tag_management(a) ELSE a)
        ELSE IF key = Char("f") THEN To(open_tag_filter(a))
        ELSE To(a)

\* the top level with d not asking for Management mode
HandleNormal_delete_in_any_mode(w, key, clip_ok) ==
    LET a == w.app
        management == a.mode = "Management"
        To(b) == WOut([w EXCEPT !.app = b], Ok)
    IN  IF key = Char("/") THEN To(activate_search(a))
        ELSE IF key \in {Special("Esc"), Char("q")} THEN To(quit(a))
        ELSE IF key \in {Special("Down"), Char("j")} THEN To(next(a))
        ELSE IF key \in {Special("Up"), Char("k")} THEN To(previous(a))
        ELSE IF key = Special("Enter") THEN CopyAndQuit(w, clip_ok)
        ELSE IF key = Char("m") THEN To(toggle_mode(a))
        ELSE IF key = Char("e")
        THEN To(IF management THEN set_pending_action(a, Some("Edit")) ELSE a)
        ELSE IF key = Char("d") THEN To(show_delete_confirmation(a))
        ELSE IF key = Char("n") THEN To(IF management THEN create_new_prompt(a) ELSE a)
        ELSE IF key = Char("t") THEN To(IF management THEN open_tag_management(a) ELSE a)
        ELSE IF key = Char("f") THEN To(open_tag_filter(a))
        ELSE To(a)

\* runner.rs:307-364
HandleNormal(w, key, clip_ok) ==
    LET a == w.app
        management == a.mode = "Management"
        To(b) == WOut([w EXCEPT !.app = b], Ok)
    IN  IF key = Char("/") THEN To(activate_search(a))
        ELSE IF key \in {Special("Esc"), Char("q")} THEN To(quit(a))
        ELSE IF key \in {Special("Down"), Char("j")} THEN To(next(a))
        ELSE IF key \in {Special("Up"), Char("k")} THEN To(previous(a))
        ELSE IF key = Special("Enter") THEN CopyAndQuit(w, clip_ok)
        ELSE IF key = Char("m") THEN To(toggle_mode(a))
        ELSE IF key = Char("e")
        THEN To(IF management THEN set_pending_action(a, Some("Edit")) ELSE a)
        ELSE IF key = Char("d") THEN To(IF management THEN show_delete_confirmation(a) ELSE a)
        ELSE IF key = Char("n") THEN To(IF management THEN create_new_prompt(a) ELSE a)
        ELSE IF key = Char("t") THEN To(IF management THEN open_tag_management(a) ELSE a)
        ELSE IF key = Char("f") THEN To(open_tag_filter(a))
        ELSE To(a)

Routed(out, by) == [w |-> out.w, res |-> out.res, by |-> by]

\* the router with `return Ok(())` missing after clear_error: the key goes on
handle_event_banner_falls_through(w, key, clip_ok) ==
    LET v == [w EXCEPT !.app = clear_error(w.app)]
        By(name) == IF has_error(w.app) THEN "error-banner" ELSE name
    IN  IF key \notin Keys THEN Routed(WOut(w, Ok), "not-a-key")
        ELSE IF is_showing_confirmation(v.app) THEN Routed(HandleConfirmation(v, key), By("confirmation"))
        ELSE IF is_tag_filter_dialog_active(v.app) THEN Routed(HandleTagFilter(v, key), By("tag-filter"))
        ELSE IF is_tag_management_active(v.app) THEN Routed(HandleTagManagement(v, key), By("tag-edit"))
        ELSE IF is_create_dialog_active(v.app) THEN Routed(HandleCreateDialog(v, key), By("create"))
        ELSE IF is_search_active(v.app) THEN Routed(HandleSearch(v, key, clip_ok), By("search-active"))
        ELSE Routed(HandleNormal(v, key, clip_ok), By("top-level"))

\* the router with the create dialog tested before the tag-edit dialog
handle_event_create_before_tag_edit(w, key, clip_ok) ==
    IF key \notin Keys THEN Routed(WOut(w, Ok), "not-a-key")
    ELSE IF has_error(w.app) THEN Routed(HandleBanner(w, key), "error-banner")
    ELSE IF is_showing_confirmation(w.app) THEN Routed(HandleConfirmation(w, key), "confirmation")
    ELSE IF is_tag_filter_dialog_active(w.app) THEN Routed(HandleTagFilter(w, key), "tag-filter")
    ELSE IF is_create_dialog_active(w.app) THEN Routed(HandleCreateDialog(w, key), "create")
    ELSE IF is_tag_management_active(w.app) THEN Routed(HandleTagManagement(w, key), "tag-edit")
    ELSE IF is_search_active(w.app) THEN Routed(HandleSearch(w, key, clip_ok), "search-active")
    ELSE Routed(HandleNormal(w, key, clip_ok), "top-level")

\* the router without the create dialog's branch: its keys reach the states below
handle_event_without_create_branch(w, key, clip_ok) ==
    IF key \notin Keys THEN Routed(WOut(w, Ok), "not-a-key")
    ELSE IF has_error(w.app) THEN Routed(HandleBanner(w, key), "error-banner")
    ELSE IF is_showing_confirmation(w.app) THEN Routed(HandleConfirmation(w, key), "confirmation")
    ELSE IF is_tag_filter_dialog_active(w.app) THEN Routed(HandleTagFilter(w, key), "tag-filter")
    ELSE IF is_tag_management_active(w.app) THEN Routed(HandleTagManagement(w, key), "tag-edit")
    ELSE IF is_search_active(w.app) THEN Routed(HandleSearch(w, key, clip_ok), "search-active")
    ELSE Routed(HandleNormal(w, key, clip_ok), "top-level")

\* the router without the confirmation dialog's branch
handle_event_without_confirmation_branch(w, key, clip_ok) ==
    IF key \notin Keys THEN Routed(WOut(w, Ok), "not-a-key")
    ELSE IF has_error(w.app) THEN Routed(HandleBanner(w, key), "error-banner")
    ELSE IF is_tag_filter_dialog_active(w.app) THEN Routed(HandleTagFilter(w, key), "tag-filter")
    ELSE IF is_tag_management_active(w.app) THEN Routed(HandleTagManagement(w, key), "tag-edit")
    ELSE IF is_create_dialog_active(w.app) THEN Routed(HandleCreateDialog(w, key), "create")
    ELSE IF is_search_active(w.app) THEN Routed(HandleSearch(w, key, clip_ok), "search-active")
    ELSE Routed(HandleNormal(w, key, clip_ok), "top-level")

\* the router: the first active state in the order of the source takes the key
handle_event(w, key, clip_ok) ==
    IF key \notin Keys THEN Routed(WOut(w, Ok), "not-a-key")
    ELSE IF has_error(w.app) THEN Routed(HandleBanner(w, key), "error-banner")
    ELSE IF is_showing_confirmation(w.app) THEN Routed(HandleConfirmation(w, key), "confirmation")
    ELSE IF is_tag_filter_dialog_active(w.app) THEN Routed(HandleTagFilter(w, key), "tag-filter")
    ELSE IF is_tag_management_active(w.app) THEN Routed(HandleTagManagement(w, key), "tag-edit")
    ELSE IF is_create_dialog_active(w.app) THEN Routed(HandleCreateDialog(w, key), "create")
    ELSE IF is_search_active(w.app) THEN Routed(HandleSearch(w, key, clip_ok), "search-active")
    ELSE Routed(HandleNormal(w, key, clip_ok), "top-level")

(***************************************************************************)
(* run_with_mode (src/src/presentation/tui/runner.rs:378-447): one action  *)
(* per statement that can fail or block. A call that returns io::Result    *)
(* may fail; `?` then returns the error from run_with_mode at once.        *)
(***************************************************************************)
TheWorld == [app |-> app, sys |-> Sys(files, clipboard, {})]

\* the store at startup, and what the user commits in the dialogs
InitTuiFiles ==
    [p \in {FileName(<<"a">>), FileName(<<"n">>)} |->
        IF p = FileName(<<"a">>) THEN Content(<<"a">>, <<<<"a">>>>, "empty")
        ELSE Content(<<"n">>, <<>>, "empty")]
CreateNames == {<<"n">>}
TagNames == {<<"a">>, <<"r">>}

TextOf(a) ==
    {a.search_query}
    \cup (IF a.create_dialog.some THEN {a.create_dialog.val.filename} ELSE {})
    \cup (IF a.tag_dialog.some THEN {a.tag_dialog.val.input} ELSE {})

\* the user confirms a create or a tag only for the names of the model's universe
Commits(w, key) ==
    /\ (~has_error(w.app) /\ ~is_showing_confirmation(w.app) /\ ~is_tag_filter_dialog_active(w.app)
          /\ ~is_tag_management_active(w.app) /\ is_create_dialog_active(w.app)
          /\ key = Special("Enter") /\ is_valid(w.app.create_dialog.val))
       => get_normalized_filename(w.app.create_dialog.val) \in CreateNames
    /\ (~has_error(w.app) /\ ~is_showing_confirmation(w.app) /\ ~is_tag_filter_dialog_active(w.app)
          /\ is_tag_management_active(w.app) /\ key = Special("Enter")
          /\ w.app.tag_dialog.val.input # <<>>)
       => w.app.tag_dialog.val.input \in TagNames

WithinBounds(w) ==
    /\ \A t \in TextOf(w.app) : Len(t) <= MaxText
    /\ Cardinality(DOMAIN w.sys.files) <= MaxFiles
    /\ \A p \in DOMAIN w.sys.files : Len(w.sys.files[p].tags) <= MaxTags

Returns(result) == pc' = "done" /\ ret' = result

Untouched == UNCHANGED <<files, clipboard, effects, call, app, last>>

\* enable_raw_mode()?                                      runner.rs:380
EnableRawMode ==
    /\ pc = "start"
    /\ \/ raw' = TRUE /\ pc' = "enter" /\ UNCHANGED ret
       \/ UNCHANGED raw /\ Returns("Err")
    /\ UNCHANGED alt /\ Untouched

\* execute!(stdout, terminal::EnterAlternateScreen)?       runner.rs:382
EnterAlternateScreen ==
    /\ pc = "enter"
    /\ \/ alt' = TRUE /\ pc' = "new" /\ UNCHANGED ret
       \/ UNCHANGED alt /\ Returns("Err")
    /\ UNCHANGED raw /\ Untouched

\* Terminal::new(backend)?; TUIApp::new_with_mode_and_config(config, mode)?
\*                                                         runner.rs:384-388
CreateApp ==
    /\ pc = "new"
    /\ \/ app' = NewApp(files, app.mode) /\ pc' = "draw" /\ UNCHANGED ret
       \/ UNCHANGED app /\ Returns("Err")
    /\ UNCHANGED <<files, clipboard, effects, call, raw, alt, last>>

\* terminal.draw(..)?                                      runner.rs:394-403
Draw ==
    /\ pc = "draw"
    /\ \/ pc' = "read" /\ UNCHANGED ret
       \/ Returns("Err")
    /\ UNCHANGED <<raw, alt>> /\ Untouched

\* the world after handle_event returned `out`; an Err leaves run_with_mode by `?`
\*                                                         runner.rs:407
Handled(out, event) ==
    /\ WithinBounds(out.w)
    /\ app' = out.w.app
    /\ files' = out.w.sys.files
    /\ clipboard' = out.w.sys.clipboard
    /\ effects' = out.w.sys.effects
    /\ last' = [key |-> event, by |-> out.by, res |-> out.res, edit |-> NoneV]
    /\ IF out.res.ok THEN pc' = "pending" /\ UNCHANGED ret
       ELSE Returns(IF out.res.err = Panic THEN "Panic" ELSE "Err")

\* if let Ok(event) = event::read() { event_handler.handle_event(&mut app, event)?; }
\*                                                         runner.rs:406-408
ReadEvent ==
    /\ pc = "read"
    /\ \E event \in Events, clip_ok \in BOOLEAN :
        /\ Commits(TheWorld, event)
        /\ Handled(handle_event(TheWorld, event, clip_ok), event)
    /\ UNCHANGED <<call, raw, alt>>

\* event::read() returned Err: the event is dropped      runner.rs:406
ReadFails ==
    /\ pc = "read"
    /\ pc' = "pending"
    /\ last' = [key |-> Special("ReadError"), by |-> "nothing", res |-> Ok, edit |-> NoneV]
    /\ effects' = {}
    /\ UNCHANGED <<files, clipboard, call, app, raw, alt, ret>>

\* the end of the iteration without the test of should_quit
AfterEvent_never_breaks ==
    /\ pc = "pending"
    /\ IF app.pending_action.some
       THEN /\ app' = [app EXCEPT !.pending_action = NoneV]
            /\ pc' = "h_disable"
            /\ UNCHANGED last
       ELSE /\ UNCHANGED app
            /\ pc' = "draw"
            /\ last' = NoLast
    /\ UNCHANGED <<files, clipboard, effects, call, raw, alt, ret>>

\* if let Some(action) = app.take_pending_action() ..; if app.should_quit() { break; }
\*                                                         runner.rs:411, 436-438
AfterEvent ==
    /\ pc = "pending"
    /\ IF app.pending_action.some
       THEN /\ app' = [app EXCEPT !.pending_action = NoneV]
            /\ pc' = "h_disable"
            /\ UNCHANGED last
       ELSE /\ UNCHANGED app
            /\ pc' = IF app.should_quit THEN "restore" ELSE "draw"
            /\ last' = IF app.should_quit THEN last ELSE NoLast
    /\ UNCHANGED <<files, clipboard, effects, call, raw, alt, ret>>

\* the handoff going on to the editor with raw mode left enabled
HandoffDisableRaw_skipped ==
    /\ pc = "h_disable"
    /\ \/ UNCHANGED raw /\ pc' = "h_leave" /\ UNCHANGED ret
       \/ UNCHANGED raw /\ Returns("Err")
    /\ UNCHANGED alt /\ Untouched

\* disable_raw_mode()?                                     runner.rs:415
HandoffDisableRaw ==
    /\ pc = "h_disable"
    /\ \/ raw' = FALSE /\ pc' = "h_leave" /\ UNCHANGED ret
       \/ UNCHANGED raw /\ Returns("Err")
    /\ UNCHANGED alt /\ Untouched

\* execute!(io::stdout(), terminal::LeaveAlternateScreen)? runner.rs:416
HandoffLeave ==
    /\ pc = "h_leave"
    /\ \/ alt' = FALSE /\ pc' = "h_edit" /\ UNCHANGED ret
       \/ UNCHANGED alt /\ Returns("Err")
    /\ UNCHANGED raw /\ Untouched

\* let result = app.edit_selected();                       runner.rs:419
HandoffEdit ==
    /\ pc = "h_edit"
    /\ \E editor_ok \in BOOLEAN :
        LET out == edit_selected(TheWorld, editor_ok) IN
        /\ app' = out.w.app
        /\ files' = out.w.sys.files
        /\ clipboard' = out.w.sys.clipboard
        /\ effects' = out.w.sys.effects
        /\ last' = [last EXCEPT !.edit = Some(out.res)]
    /\ pc' = "h_enable"
    /\ UNCHANGED <<call, raw, alt, ret>>

\* the handoff coming back from the editor without enabling raw mode
HandoffEnableRaw_skipped ==
    /\ pc = "h_enable"
    /\ \/ UNCHANGED raw /\ pc' = "h_enter" /\ UNCHANGED ret
       \/ UNCHANGED raw /\ Returns("Err")
    /\ UNCHANGED alt /\ Untouched

\* enable_raw_mode()?                                      runner.rs:422
HandoffEnableRaw ==
    /\ pc = "h_enable"
    /\ \/ raw' = TRUE /\ pc' = "h_enter" /\ UNCHANGED ret
       \/ UNCHANGED raw /\ Returns("Err")
    /\ UNCHANGED alt /\ Untouched

\* execute!(io::stdout(), terminal::EnterAlternateScreen)? runner.rs:423
HandoffEnter ==
    /\ pc = "h_enter"
    /\ \/ alt' = TRUE /\ pc' = "h_clear" /\ UNCHANGED ret
       \/ UNCHANGED alt /\ Returns("Err")
    /\ UNCHANGED raw /\ Untouched

\* terminal.clear()?; if let Err(e) = result { eprintln!(..) }; if app.should_quit() ..
\*                                                         runner.rs:426-438
HandoffClear ==
    /\ pc = "h_clear"
    /\ \/ /\ pc' = IF app.should_quit THEN "restore" ELSE "draw"
          /\ last' = IF app.should_quit THEN last ELSE NoLast
          /\ UNCHANGED ret
       \/ Returns("Err") /\ UNCHANGED last
    /\ UNCHANGED <<files, clipboard, effects, call, app, raw, alt>>

\* disable_raw_mode()?                                     runner.rs:442
RestoreRaw ==
    /\ pc = "restore"
    /\ \/ raw' = FALSE /\ pc' = "leave" /\ UNCHANGED ret
       \/ UNCHANGED raw /\ Returns("Err")
    /\ UNCHANGED alt /\ Untouched

\* execute!(.., LeaveAlternateScreen)?; terminal.show_cursor()?; Ok(())
\*                                                         runner.rs:443-446
RestoreScreen ==
    /\ pc = "leave"
    /\ \/ alt' = FALSE /\ Returns("Ok")
       \/ alt' = FALSE /\ Returns("Err")
       \/ UNCHANGED alt /\ Returns("Err")
    /\ UNCHANGED raw /\ Untouched

\* another process removes a prompt file while the loop waits for input (spec.md 5)
ExternalDelete ==
    /\ pc = "read"
    /\ \A i \in 1..Len(app.prompts) : app.prompts[i].file_path \in DOMAIN files
    /\ \E p \in DOMAIN files : files' = [q \in DOMAIN files \ {p} |-> files[q]]
    /\ UNCHANGED <<clipboard, effects, call, app, pc, raw, alt, ret, last>>

\* run (QuickSelect) or run_manage_mode (Management)      runner.rs:370-376
Init ==
    /\ files = InitTuiFiles
    /\ clipboard = None
    /\ effects = {}
    /\ call = NoCall
    /\ app \in {[mode |-> "QuickSelect"], [mode |-> "Management"]}
    /\ pc = "start"
    /\ raw = FALSE
    /\ alt = FALSE
    /\ ret = None
    /\ last = NoLast

Next ==
    \/ EnableRawMode
    \/ EnterAlternateScreen
    \/ CreateApp
    \/ Draw
    \/ ReadEvent
    \/ ReadFails
    \/ AfterEvent
    \/ HandoffDisableRaw
    \/ HandoffLeave
    \/ HandoffEdit
    \/ HandoffEnableRaw
    \/ HandoffEnter
    \/ HandoffClear
    \/ RestoreRaw
    \/ RestoreScreen
    \/ ExternalDelete

Spec == Init /\ [][Next]_vars


(***************************************************************************)
(* The router on its own: a TUIApp brought into a state through its public *)
(* methods, as the integration tests of src/tests do, and then handed to   *)
(* EventHandler::handle_event with one event.                              *)
(***************************************************************************)
Setup(b) ==
    /\ pc = "setup"
    /\ b # app
    /\ app' = b
    /\ UNCHANGED <<files, clipboard, effects, call, pc, raw, alt, ret, last>>

ApiSetError == ~has_error(app) /\ Setup(set_error(app, <<"failed">>))
ApiToggleMode == app.mode = "QuickSelect" /\ Setup(toggle_mode(app))
ApiShowDeleteConfirmation == ~is_showing_confirmation(app) /\ Setup(show_delete_confirmation(app))
ApiOpenTagFilter == ~is_tag_filter_dialog_active(app) /\ Setup(open_tag_filter(app))
ApiOpenTagManagement == ~is_tag_management_active(app) /\ Setup(open_tag_management(app))
ApiCreateNewPrompt == ~is_create_dialog_active(app) /\ Setup(create_new_prompt(app))
ApiActivateSearch == ~is_search_active(app) /\ Setup(activate_search(app))

\* set_search_query with a query that matches a, and one that matches nothing
SetQueries == {<<"a">>, <<"/">>}
ApiSetSearchQuery ==
    /\ is_search_active(app)
    /\ app.search_query = <<>>
    /\ \E query \in SetQueries : Setup(set_search_query(app, query))

\* the names typed into the create dialog: one that is taken, one that is free
TypedNames == CreateNames \cup {<<"h">>}

\* dialog.add_char(c) through get_create_dialog_mut
ApiAddChar ==
    /\ is_create_dialog_active(app)
    /\ \E name \in TypedNames :
        /\ Len(app.create_dialog.val.filename) < Len(name)
        /\ Setup([app EXCEPT !.create_dialog.val =
                     add_char(@, name[Len(app.create_dialog.val.filename) + 1])])

\* dialog.next_field() and dialog.next_template() through get_create_dialog_mut
ApiNextField ==
    /\ is_create_dialog_active(app)
    /\ Setup([app EXCEPT !.create_dialog.val = next_field(@)])
ApiNextTemplate ==
    /\ is_create_dialog_active(app)
    /\ Setup([app EXCEPT !.create_dialog.val = next_template(@)])

\* the world after the one call of handle_event
RoutedTo(out, event) ==
    /\ app' = out.w.app
    /\ files' = out.w.sys.files
    /\ clipboard' = out.w.sys.clipboard
    /\ effects' = out.w.sys.effects
    /\ last' = [key |-> event, by |-> out.by, res |-> out.res, edit |-> NoneV]

RouteEvent ==
    /\ pc = "setup"
    /\ pc' = "routed"
    /\ \E event \in Events, clip_ok \in BOOLEAN :
        RoutedTo(handle_event(TheWorld, event, clip_ok), event)
    /\ UNCHANGED <<call, raw, alt, ret>>

InitRouter ==
    /\ files = InitTuiFiles
    /\ clipboard = None
    /\ effects = {}
    /\ call = NoCall
    /\ app = NewApp(InitTuiFiles, "QuickSelect")
    /\ pc = "setup"
    /\ raw = TRUE
    /\ alt = TRUE
    /\ ret = None
    /\ last = NoLast

NextRouter ==
    \/ ApiSetError
    \/ ApiToggleMode
    \/ ApiShowDeleteConfirmation
    \/ ApiOpenTagFilter
    \/ ApiOpenTagManagement
    \/ ApiCreateNewPrompt
    \/ ApiActivateSearch
    \/ ApiSetSearchQuery
    \/ ApiAddChar
    \/ ApiNextField
    \/ ApiNextTemplate
    \/ RouteEvent

SpecRouter == InitRouter /\ [][NextRouter]_vars


(***************************************************************************)
(* FinkError::is_recoverable (src/src/utils/error.rs:143-150) applied to   *)
(* an error of every variant of the four enums, with every small payload.  *)
(***************************************************************************)
MaxErrText == 2
ErrTexts == SeqsUpTo({"a", "n"}, MaxErrText)
ErrFields == {"confirmation", "template"}

\* error.rs:4-36: the variants of PromptError, StorageError, ExternalError and
\* ValidationError
PromptErrors ==
    {Err("Prompt", variant, "", text) :
        variant \in {"NotFound", "AlreadyExists", "InvalidFormat"}, text \in ErrTexts}
StorageErrors ==
    {Err("Storage", variant, "", text) :
        variant \in {"Io", "ParseError", "InvalidPath"}, text \in ErrTexts}
ExternalErrors ==
    {Err("External", variant, "", text) :
        variant \in {"ClipboardError", "EditorError"}, text \in ErrTexts}
ValidationErrors ==
    {Err("Validation", "InvalidInput", field, text) : field \in ErrFields, text \in ErrTexts}
    \cup {Err("Validation", "MissingRequired", "", text) : text \in ErrTexts}
    \cup {ForceRequired}
FinkErrors == PromptErrors \cup StorageErrors \cup ExternalErrors \cup ValidationErrors

\* error.is_recoverable()
ClassifyError ==
    /\ pc = "error"
    /\ pc' = "classified"
    /\ ret' = IF is_recoverable(last.res.err) THEN "recoverable" ELSE "unrecoverable"
    /\ UNCHANGED <<files, clipboard, effects, call, app, raw, alt, last>>

InitErrors ==
    /\ files = <<>>
    /\ clipboard = None
    /\ effects = {}
    /\ call = NoCall
    /\ app = NoApp
    /\ pc = "error"
    /\ raw = FALSE
    /\ alt = FALSE
    /\ ret = None
    /\ \E e \in FinkErrors : last = [NoLast EXCEPT !.res = Fail(e)]

NextErrors == ClassifyError

SpecErrors == InitErrors /\ [][NextErrors]_vars


(***************************************************************************)
(* Properties of the router, of the dialogs and of the run loop.           *)
(***************************************************************************)
Dialogs == {"confirmation", "tag-filter", "tag-edit", "create"}

\* the dialogs that are open in the application value a (none before it is built)
ActiveDialogs(a) ==
    IF "confirmation" \notin DOMAIN a THEN {}
    ELSE {d \in Dialogs :
            \/ d = "confirmation" /\ is_showing_confirmation(a)
            \/ d = "tag-filter" /\ is_tag_filter_dialog_active(a)
            \/ d = "tag-edit" /\ is_tag_management_active(a)
            \/ d = "create" /\ is_create_dialog_active(a)}

\* one call of handle_event, in the router's own specification and in the run loop
RouterStep == pc = "setup" /\ pc' = "routed"
KeyStep == pc = "read" /\ pc' \in {"pending", "done"} /\ last'.key \in Keys

\* C1: with the error banner present, a key clears the banner and changes nothing
\* else: not the mode, the dialogs and their contents, the search flag and query,
\* the selection, the pending action or should_quit, nor the store or the
\* clipboard; the call returns Ok. So q does not quit and y does not confirm.
C1_BannerConsumesKey ==
    [][(RouterStep /\ has_error(app) /\ last'.key \in Keys)
        => /\ app' = clear_error(app)
           /\ files' = files
           /\ clipboard' = clipboard
           /\ effects' = {}
           /\ last'.res = Ok]_vars

\* y arrived with the banner over a pending confirmation: the banner is gone, the
\* confirmation still pending, nothing deleted
C1_Witness ==
    /\ pc = "routed"
    /\ last.key = Char("y")
    /\ last.by = "error-banner"
    /\ ~has_error(app)
    /\ is_showing_confirmation(app)
    /\ ~app.should_quit
    /\ files = InitTuiFiles

Precedence ==
    <<"error-banner", "confirmation", "tag-filter", "tag-edit", "create", "search-active",
      "top-level">>

IsActive(a, state) ==
    CASE state = "error-banner" -> has_error(a)
      [] state = "confirmation" -> is_showing_confirmation(a)
      [] state = "tag-filter" -> is_tag_filter_dialog_active(a)
      [] state = "tag-edit" -> is_tag_management_active(a)
      [] state = "create" -> is_create_dialog_active(a)
      [] state = "search-active" -> is_search_active(a)
      [] state = "top-level" -> TRUE

FirstActive(a) ==
    Precedence[CHOOSE i \in 1..Len(Precedence) :
                  /\ IsActive(a, Precedence[i])
                  /\ \A j \in 1..(i - 1) : ~IsActive(a, Precedence[j])]

\* what the handler of one state does with the key, on its own
HandlerAlone(state, w, key, clip_ok) ==
    CASE state = "error-banner" -> HandleBanner(w, key)
      [] state = "confirmation" -> HandleConfirmation(w, key)
      [] state = "tag-filter" -> HandleTagFilter(w, key)
      [] state = "tag-edit" -> HandleTagManagement(w, key)
      [] state = "create" -> HandleCreateDialog(w, key)
      [] state = "search-active" -> HandleSearch(w, key, clip_ok)
      [] state = "top-level" -> HandleNormal(w, key, clip_ok)

SameWorld(out) ==
    /\ app' = out.w.app
    /\ files' = out.w.sys.files
    /\ clipboard' = out.w.sys.clipboard
    /\ effects' = out.w.sys.effects
    /\ last'.res = out.res

\* C2: a key is handled by the first active state in the order error-banner,
\* confirmation, tag-filter, tag-edit, create, search-active, top-level, and the
\* world after the call is what that one handler makes of it: no later handler
\* has acted on the key.
C2_FirstActiveHandlerOnly ==
    [][(RouterStep /\ last'.key \in Keys)
        => /\ last'.by = FirstActive(app)
           /\ \E clip_ok \in BOOLEAN :
                SameWorld(HandlerAlone(FirstActive(app), TheWorld, last'.key, clip_ok))]_vars

\* n arrived with the confirmation over an open create dialog in a search: the
\* confirmation took it (cancelled), the create dialog did not get the character
C2_Witness ==
    /\ pc = "routed"
    /\ last.key = Char("n")
    /\ last.by = "confirmation"
    /\ ~is_showing_confirmation(app)
    /\ is_create_dialog_active(app)
    /\ app.create_dialog.val.filename = <<>>
    /\ is_search_active(app)
    /\ app.search_query = <<>>

OpensDialog == ActiveDialogs(app') \ ActiveDialogs(app) # {}

\* C3: in every state of the run loop at most one dialog is open, and a step that
\* opens a dialog is a key handled at top level, from a state with no dialog, no
\* active search and no banner.
C3_DialogsExclusive ==
    /\ [](Cardinality(ActiveDialogs(app)) <= 1)
    /\ [][OpensDialog
            => /\ KeyStep
               /\ last'.by = "top-level"
               /\ ActiveDialogs(app) = {}
               /\ ~is_search_active(app)
               /\ ~has_error(app)]_vars

\* t at top level opened the tag-edit dialog, the only one open
C3_Witness ==
    /\ pc = "pending"
    /\ last.key = Char("t")
    /\ last.by = "top-level"
    /\ ActiveDialogs(app) = {"tag-edit"}

\* C4: a key that arrives while a dialog is open leaves the mode, the search flag,
\* the search query, the pending action and should_quit as they were.
C4_DialogCapturesKeys ==
    [][(KeyStep /\ ActiveDialogs(app) # {})
        => /\ app'.mode = app.mode
           /\ app'.search_active = app.search_active
           /\ app'.search_query = app.search_query
           /\ app'.pending_action = app.pending_action
           /\ app'.should_quit = app.should_quit]_vars

\* q arrived in the confirmation dialog: still open, and the loop does not quit
C4_Witness ==
    /\ pc = "pending"
    /\ last.key = Char("q")
    /\ last.by = "confirmation"
    /\ is_showing_confirmation(app)
    /\ ~app.should_quit
    /\ ~is_search_active(app)

\* C5: when run_with_mode has returned, raw mode is off and the alternate screen
\* left, on every exit path.
C5_AsStated == pc = "done" => ~raw /\ ~alt

\* C6: a recoverable error of an operation the router invoked becomes the error
\* banner, and the run loop goes on with the next key.
C6_AsStated ==
    (last.by \in Range(Precedence) /\ ~last.res.ok /\ is_recoverable(last.res.err))
        => has_error(app) /\ pc # "done"


\* Enter handled at top level or by the search, in the run loop
EnterStep ==
    /\ KeyStep
    /\ last'.key = Special("Enter")
    /\ FirstActive(app) \in {"top-level", "search-active"}

\* C11: in QuickSelect, Enter at top level or in a search on a visible selected
\* record copies its body to the clipboard and then sets should_quit, and the loop
\* leaves at the end of that iteration; when the copy fails the clipboard is
\* untouched and should_quit is not set.
C11_EnterCopiesThenQuits ==
    [][/\ (EnterStep /\ app.mode = "QuickSelect" /\ SelectedName(app).some)
            => IF last'.res.ok
               THEN /\ clipboard' = files[FileName(SelectedName(app).val)].body
                    /\ app' = quit(app)
                    /\ files' = files
                    /\ pc' = "pending"
               ELSE /\ clipboard' = clipboard
                    /\ ~app'.should_quit
       /\ (pc = "pending" /\ last.key = Special("Enter") /\ app.should_quit)
            => pc' = "restore" /\ app' = app]_vars

\* Enter in a search copied the body of a prompt made from the template, and the
\* loop has left for the terminal's restoration
C11_Witness ==
    /\ pc = "restore"
    /\ last.key = Special("Enter")
    /\ last.by = "search-active"
    /\ app.mode = "QuickSelect"
    /\ app.should_quit
    /\ app.search_query # <<>>
    /\ clipboard = "basic"


\* C12: in QuickSelect, Enter with nothing visible does not quit: should_quit stays
\* false and the error banner is set.
C12_AsStated ==
    (/\ last.key = Special("Enter")
     /\ last.by \in {"top-level", "search-active"}
     /\ app.mode = "QuickSelect"
     /\ Visible(app) = <<>>)
        => ~app.should_quit /\ has_error(app)


\* the call changed nothing at all
NothingChanged ==
    /\ app' = app
    /\ files' = files
    /\ clipboard' = clipboard
    /\ effects' = {}
    /\ last'.res = Ok

\* C13: in Management mode Enter at top level or in a search changes nothing: no
\* clipboard write, should_quit still false, mode, selection, search and dialogs
\* as they were.
C13_ManagementEnterIgnored ==
    [][(/\ RouterStep
        /\ last'.key = Special("Enter")
        /\ FirstActive(app) \in {"top-level", "search-active"}
        /\ app.mode = "Management")
        => NothingChanged]_vars

\* Enter arrived in a search in Management mode with a record selected
C13_Witness ==
    /\ pc = "routed"
    /\ last.key = Special("Enter")
    /\ last.by = "search-active"
    /\ app.mode = "Management"
    /\ SelectedName(app).some
    /\ ~app.should_quit
    /\ clipboard = None

\* C14: at top level e, d, n and t act in Management mode only (pending edit,
\* confirmation, create dialog, tag-edit dialog) and change nothing in QuickSelect
\* mode; f opens the tag-filter dialog in both modes.
C14_ManagementOnlyKeys ==
    [][(RouterStep /\ FirstActive(app) = "top-level")
        => /\ (app.mode = "QuickSelect" /\ last'.key \in {Char("e"), Char("d"), Char("n"), Char("t")})
                => NothingChanged
           /\ (app.mode = "Management" /\ last'.key = Char("e"))
                => app' = [app EXCEPT !.pending_action = Some("Edit")]
           /\ (app.mode = "Management" /\ last'.key = Char("d") /\ SelectedName(app).some)
                => ActiveDialogs(app') = {"confirmation"}
           /\ (app.mode = "Management" /\ last'.key = Char("n"))
                => ActiveDialogs(app') = {"create"}
           /\ (app.mode = "Management" /\ last'.key = Char("t") /\ SelectedName(app).some)
                => ActiveDialogs(app') = {"tag-edit"}
           /\ last'.key = Char("f")
                => /\ ActiveDialogs(app') = {"tag-filter"}
                   /\ app'.mode = app.mode]_vars

\* d arrived at top level in QuickSelect mode: no dialog, nothing pending
C14_Witness ==
    /\ pc = "routed"
    /\ last.key = Char("d")
    /\ last.by = "top-level"
    /\ app.mode = "QuickSelect"
    /\ SelectedName(app).some
    /\ ActiveDialogs(app) = {}
    /\ ~app.pending_action.some


\* a key handled by the create dialog, and the dialog before and after it
CreateStep == RouterStep /\ FirstActive(app) = "create" /\ last'.key \in Keys
DialogIs(filename, template_index, current_field) ==
    /\ app' = [app EXCEPT !.create_dialog =
                  Some([filename |-> filename, template_index |-> template_index,
                        current_field |-> current_field])]
    /\ files' = files

Shorter(text) == IF text = <<>> THEN <<>> ELSE SubSeq(text, 1, Len(text) - 1)

\* C15: in the create dialog h and l go into the filename when the filename field
\* is active and move the template cursor (h back, l forward, within the list)
\* when the template field is active; any other character and Backspace edit the
\* filename on the filename field and do nothing on the template field; Tab
\* switches between the two fields. Each of these keys changes nothing else.
C15_CreateDialogKeys ==
    [][CreateStep =>
        LET d == app.create_dialog.val
            key == last'.key
            onFilename == d.current_field = "Filename"
        IN  /\ (key.code = "Char" /\ onFilename)
                => DialogIs(d.filename \o <<key.c>>, d.template_index, "Filename")
            /\ (key = Char("h") /\ ~onFilename)
                => DialogIs(d.filename,
                            IF d.template_index = 0 THEN 0 ELSE d.template_index - 1, "Template")
            /\ (key = Char("l") /\ ~onFilename)
                => DialogIs(d.filename,
                            IF d.template_index + 1 = Len(DialogTemplates)
                            THEN d.template_index ELSE d.template_index + 1, "Template")
            /\ (key.code = "Char" /\ key \notin {Char("h"), Char("l")} /\ ~onFilename)
                => DialogIs(d.filename, d.template_index, "Template")
            /\ (key = Special("Backspace") /\ onFilename)
                => DialogIs(Shorter(d.filename), d.template_index, "Filename")
            /\ (key = Special("Backspace") /\ ~onFilename)
                => DialogIs(d.filename, d.template_index, "Template")
            /\ key = Special("Tab")
                => DialogIs(d.filename, d.template_index,
                            IF onFilename THEN "Template" ELSE "Filename")]_vars

\* l arrived on the template field: the cursor is on the second template and the
\* filename typed before is as it was
C15_Witness ==
    /\ pc = "routed"
    /\ last.key = Char("l")
    /\ last.by = "create"
    /\ app.create_dialog.val.current_field = "Template"
    /\ app.create_dialog.val.template_index = 1
    /\ app.create_dialog.val.filename = <<"n">>


\* C16: in the create dialog Enter commits exactly when the filename is not empty
\* after normalization: a free name is created and the dialog closed, a taken name
\* is refused; Enter on an invalid dialog changes nothing and creates no file; Esc
\* closes the dialog and creates no file whatever was typed.
C16_EnterCommitsIffValid ==
    [][CreateStep =>
        LET d == app.create_dialog.val
            name == Normalize(d.filename)
            path == name \o <<".md">>
        IN  /\ (last'.key = Special("Enter") /\ name # <<>> /\ path \notin DOMAIN files)
                => /\ DOMAIN files' = DOMAIN files \cup {path}
                   /\ \A p \in DOMAIN files : files'[p] = files[p]
                   /\ ~is_create_dialog_active(app')
                   /\ ~has_error(app')
            /\ (last'.key = Special("Enter") /\ name # <<>> /\ path \in DOMAIN files)
                => /\ files' = files
                   /\ has_error(app')
            /\ (last'.key = Special("Enter") /\ name = <<>>)
                => NothingChanged
            /\ last'.key = Special("Esc")
                => /\ app' = [app EXCEPT !.create_dialog = NoneV]
                   /\ files' = files]_vars

\* Enter arrived in a create dialog with the free name h: h.md exists, dialog closed
C16_Witness ==
    /\ pc = "routed"
    /\ last.key = Special("Enter")
    /\ last.by = "create"
    /\ <<"h", ".md">> \in DOMAIN files
    /\ ~is_create_dialog_active(app)


\* C17: when Enter in a valid create dialog names a prompt that exists, the create
\* fails: the error banner is set, handle_event returns Ok, no file is changed, and
\* the run loop goes on to draw and read the next key.
C17_FailedCreateShowsBanner ==
    [][/\ (/\ KeyStep
            /\ FirstActive(app) = "create"
            /\ last'.key = Special("Enter")
            /\ Normalize(app.create_dialog.val.filename) # <<>>
            /\ (Normalize(app.create_dialog.val.filename) \o <<".md">>) \in DOMAIN files)
            => /\ has_error(app')
               /\ last'.res = Ok
               /\ files' = files
               /\ ~app'.should_quit
               /\ pc' = "pending"
       /\ (pc = "pending" /\ last.by = "create" /\ has_error(app))
            => pc' = "draw" /\ app' = app]_vars

\* Enter arrived in a create dialog naming n, which exists: banner, store untouched
C17_Witness ==
    /\ pc = "pending"
    /\ last.key = Special("Enter")
    /\ last.by = "create"
    /\ last.res = Ok
    /\ has_error(app)
    /\ is_create_dialog_active(app)
    /\ app.create_dialog.val.filename = <<"n">>
    /\ files = InitTuiFiles


\* a step of the program itself that removes a prompt file
ProgramDeletes ==
    /\ DOMAIN files' # DOMAIN files
    /\ DOMAIN files' \subseteq DOMAIN files
    /\ pc' # pc

\* C18: while the confirmation shows, y or Y confirm: the dialog closes and the one
\* named prompt is deleted; n, N or Esc cancel: the dialog closes and nothing is
\* deleted; any other key changes nothing. The program deletes a prompt file only
\* on y or Y in the confirmation dialog, in Management mode.
C18_ConfirmationKeys ==
    [][/\ (KeyStep /\ FirstActive(app) = "confirmation")
            => LET path == app.confirmation.val \o <<".md">> IN
               /\ (last'.key \in {Char("y"), Char("Y")})
                    => /\ ~is_showing_confirmation(app')
                       /\ DOMAIN files' = DOMAIN files \ {path}
                       /\ \A p \in DOMAIN files' : files'[p] = files[p]
                       /\ last'.res.ok <=> path \in DOMAIN files
               /\ (last'.key \in {Char("n"), Char("N"), Special("Esc")})
                    => /\ app' = [app EXCEPT !.confirmation = NoneV]
                       /\ files' = files
               /\ (last'.key \notin {Char("y"), Char("Y"), Char("n"), Char("N"), Special("Esc")})
                    => NothingChanged
       /\ ProgramDeletes
            => /\ KeyStep
               /\ FirstActive(app) = "confirmation"
               /\ last'.key \in {Char("y"), Char("Y")}
               /\ app.mode = "Management"]_vars

\* Y arrived in the confirmation for a: a.md is gone, n.md is there, dialog closed
C18_Witness ==
    /\ pc = "pending"
    /\ last.key = Char("Y")
    /\ last.by = "confirmation"
    /\ DOMAIN files = {<<"n", ".md">>}
    /\ ~is_showing_confirmation(app)
    /\ app.mode = "Management"


\* the cursor of the tag-filter dialog after Up or Down, kept inside the list
CursorAfter(d, key) ==
    IF key = Special("Up")
    THEN (IF d.selected_index = 0 THEN 0 ELSE d.selected_index - 1)
    ELSE (IF d.selected_index + 1 >= Len(d.tags) THEN d.selected_index
          ELSE d.selected_index + 1)

\* C19: while the tag-filter dialog is active, Esc closes it and keeps the filter;
\* Enter closes it and sets the filter to the tag under the cursor, or keeps the
\* filter when there is no tag; c closes it and clears the filter; Up and Down
\* move only the dialog cursor, clamped; any other key changes nothing.
C19_TagFilterKeys ==
    [][(KeyStep /\ FirstActive(app) = "tag-filter")
        => LET d == app.tag_filter_dialog.val
               key == last'.key
           IN  /\ files' = files
               /\ last'.res = Ok
               /\ (key = Special("Esc"))
                    => app' = [app EXCEPT !.tag_filter_dialog = NoneV]
               /\ (key = Special("Enter"))
                    => /\ ~is_tag_filter_dialog_active(app')
                       /\ app'.tag_filter =
                            IF d.tags = <<>> THEN app.tag_filter
                            ELSE Some(d.tags[d.selected_index + 1])
               /\ (key = Char("c"))
                    => /\ ~is_tag_filter_dialog_active(app')
                       /\ app'.tag_filter = NoneV
               /\ (key \in {Special("Up"), Special("Down")})
                    => app' = [app EXCEPT !.tag_filter_dialog =
                                Some([d EXCEPT !.selected_index = CursorAfter(d, key)])]
               /\ (key \notin {Special("Esc"), Special("Enter"), Char("c"),
                                Special("Up"), Special("Down")})
                    => app' = app]_vars

\* Enter arrived with the cursor on the tag r: the dialog closed, the filter is r
C19_Witness ==
    /\ pc = "pending"
    /\ last.key = Special("Enter")
    /\ last.by = "tag-filter"
    /\ app.tag_filter = Some(<<"r">>)
    /\ ~is_tag_filter_dialog_active(app)


\* C20: the tag-edit dialog moves ViewTags -> AddingTag on a, ViewTags ->
\* RemovingTag on r and closes on Esc in ViewTags; from AddingTag and RemovingTag,
\* Esc and Enter lead back to ViewTags with the dialog still open; in AddingTag the
\* characters a and r go into the buffer and the mode stays. The dialog never
\* closes out of AddingTag or RemovingTag and never moves between those two.
C20_TagEditStateMachine ==
    [][(KeyStep /\ FirstActive(app) = "tag-edit")
        => LET d == app.tag_dialog.val
               key == last'.key
               open == is_tag_management_active(app')
               e == app'.tag_dialog.val
           IN  /\ (d.input_mode = "ViewTags" /\ key = Char("a"))
                    => open /\ e.input_mode = "AddingTag" /\ e.input = <<>>
               /\ (d.input_mode = "ViewTags" /\ key = Char("r"))
                    => open /\ e.input_mode = "RemovingTag" /\ e.selected_index = 0
               /\ (d.input_mode = "ViewTags" /\ key = Special("Esc")) => ~open
               /\ (d.input_mode # "ViewTags" /\ key \in {Special("Esc"), Special("Enter")})
                    => open /\ e.input_mode = "ViewTags"
               /\ (d.input_mode = "AddingTag" /\ key \in {Char("a"), Char("r")})
                    => open /\ e.input_mode = "AddingTag" /\ e.input = Append(d.input, key.c)
               /\ (d.input_mode # "ViewTags")
                    => open /\ e.input_mode \in {d.input_mode, "ViewTags"}]_vars

\* r arrived while a tag was being typed: it is in the buffer, the mode is AddingTag
C20_Witness ==
    /\ pc = "pending"
    /\ last.key = Char("r")
    /\ last.by = "tag-edit"
    /\ is_tag_management_active(app)
    /\ app.tag_dialog.val.input_mode = "AddingTag"
    /\ app.tag_dialog.val.input = <<"r">>


\* the statements of the editor handoff in program order (runner.rs:415-426)
HandoffOrder == <<"h_disable", "h_leave", "h_edit", "h_enable", "h_enter", "h_clear">>
HandoffAt(p) == CHOOSE i \in 1..Len(HandoffOrder) : HandoffOrder[i] = p

\* C21: a pending Edit is taken in the iteration that queued it and runs as: raw
\* mode disabled, alternate screen left, the editor operation, raw mode enabled,
\* alternate screen entered, terminal cleared, and only then the next draw. The
\* editor runs with raw mode off and the alternate screen left, and whatever its
\* result the next statement is the one that enables raw mode again.
C21_HandoffInOrder ==
    [][/\ (pc = "pending" /\ app.pending_action.some) => pc' = "h_disable"
       /\ (pc \in Range(HandoffOrder) /\ pc # "h_clear")
            => pc' \in {HandoffOrder[HandoffAt(pc) + 1], "done"}
       /\ (pc = "h_disable" /\ pc' = "h_leave") => ~raw' /\ alt'
       /\ (pc = "h_leave" /\ pc' = "h_edit") => ~raw' /\ ~alt'
       /\ (pc = "h_edit")
            => /\ ~raw /\ ~alt
               /\ pc' = "h_enable"
               /\ last'.edit.some
               /\ raw' = raw /\ alt' = alt
       /\ (pc = "h_enable" /\ pc' = "h_enter") => last.edit.some /\ raw' /\ ~alt'
       /\ (pc = "h_enter" /\ pc' = "h_clear") => raw' /\ alt'
       /\ (pc = "h_clear") => raw /\ alt /\ pc' \in {"draw", "restore", "done"}
       /\ (pc \in Range(HandoffOrder) /\ pc # "h_edit")
            => files' = files /\ app' = app /\ effects' = effects]_vars

\* the editor failed and the terminal was entered again: about to be cleared
C21_Witness ==
    /\ pc = "h_clear"
    /\ last.key = Char("e")
    /\ last.edit.some
    /\ ~last.edit.val.ok
    /\ raw
    /\ alt


\* the deferred editor operation failed and the iteration is over
EditFailed ==
    /\ pc = "h_clear"
    /\ pc' \in {"draw", "restore"}
    /\ ~last.edit.val.ok

\* Enter in the tag-edit dialog on a tag whose add or remove fails
TagEditFailed ==
    /\ KeyStep
    /\ FirstActive(app) = "tag-edit"
    /\ last'.key = Special("Enter")
    /\ LET d == app.tag_dialog.val IN
        \/ /\ d.input_mode = "AddingTag"
           /\ get_new_tag(d).some
           /\ ~add_tag_to_selected(TheWorld, get_new_tag(d).val).res.ok
        \/ /\ d.input_mode = "RemovingTag"
           /\ get_selected_tag_for_removal(d).some
           /\ ~remove_tag_from_selected(TheWorld, get_selected_tag_for_removal(d).val).res.ok

\* C22: after a failed editor operation of the handoff, and after a failed add or
\* remove of a tag in the tag-edit dialog, the error banner is present.
C22_AsStated ==
    [][(EditFailed \/ TagEditFailed) => has_error(app')]_vars


\* the TUIApp exists: new_with_mode_and_config has returned   runner.rs:388
Created(a) == "pending_action" \in DOMAIN a

\* C23: the pending action is none or the one Edit; it becomes present only on e
\* at the top level in Management mode; it is taken right after the key that
\* queued it, before the handoff starts; and none is present whenever the loop
\* draws or waits for the next event.
C23_PendingActionTakenAtOnce ==
    [][/\ Created(app') => app'.pending_action \in {NoneV, Some("Edit")}
       /\ (Created(app) /\ app'.pending_action.some /\ ~app.pending_action.some)
            => /\ KeyStep
               /\ FirstActive(app) = "top-level"
               /\ last'.key = Char("e")
               /\ app.mode = "Management"
       /\ (Created(app) /\ app.pending_action.some)
            => /\ pc = "pending"
               /\ pc' = "h_disable"
               /\ app' = [app EXCEPT !.pending_action = NoneV]
       /\ (pc' \in {"draw", "read"}) => ~app'.pending_action.some]_vars

\* e was pressed at the top level in Management mode: the Edit is queued
C23_Witness ==
    /\ pc = "pending"
    /\ last.key = Char("e")
    /\ last.by = "top-level"
    /\ app.mode = "Management"
    /\ app.pending_action = Some("Edit")


\* C24: q or Esc at the top level, in either mode, sets should_quit and nothing
\* else; with should_quit set the iteration ends by leaving the loop, without
\* another draw or read; the loop is left only with should_quit set, and
\* run_with_mode returns Ok only then.
C24_QuitsExactlyOnShouldQuit ==
    [][/\ (KeyStep /\ FirstActive(app) = "top-level"
              /\ last'.key \in {Char("q"), Special("Esc")})
            => /\ app' = quit(app)
               /\ pc' = "pending"
               /\ files' = files
       /\ (pc = "pending" /\ app.should_quit) => pc' = "restore" /\ app' = app
       /\ (pc' = "restore") => app'.should_quit
       /\ (pc' \in {"draw", "read"}) => ~app'.should_quit
       /\ (ret' = "Ok") => app'.should_quit /\ pc' = "done"]_vars

\* q at the top level in Management mode: the loop has been left
C24_Witness ==
    /\ pc = "restore"
    /\ last.key = Char("q")
    /\ last.by = "top-level"
    /\ app.mode = "Management"
    /\ app.should_quit


\* a key routed to the search
SearchStep ==
    /\ RouterStep
    /\ FirstActive(app) = "search-active"
    /\ last'.key \in Keys

\* C25: while search is active and first in precedence, a character key, the
\* letters of the top-level bindings and / included, is appended to the query and
\* does nothing else: no quit, no mode change, no dialog, no pending action, store
\* and clipboard untouched; Esc ends the search with an empty query and does not
\* quit; a key other than a character, Backspace, Esc and Enter changes nothing.
\* The router turns search on only for / at the top level.
C25_SearchCapturesKeys ==
    [][/\ (SearchStep /\ last'.key.code = "Char")
            => /\ app'.search_query = Append(app.search_query, last'.key.c)
               /\ is_search_active(app')
               /\ app'.mode = app.mode
               /\ app'.should_quit = app.should_quit
               /\ app'.pending_action = app.pending_action
               /\ app'.tag_filter = app.tag_filter
               /\ ActiveDialogs(app') = {}
               /\ ~has_error(app')
               /\ files' = files
               /\ clipboard' = clipboard
               /\ last'.res = Ok
       /\ (SearchStep /\ last'.key = Special("Esc"))
            => /\ ~is_search_active(app')
               /\ app'.search_query = <<>>
               /\ app'.should_quit = app.should_quit
               /\ app'.mode = app.mode
               /\ files' = files
       /\ (SearchStep /\ last'.key.code # "Char"
              /\ last'.key \notin {Special("Backspace"), Special("Esc"), Special("Enter")})
            => NothingChanged
       /\ (RouterStep /\ ~is_search_active(app) /\ is_search_active(app'))
            => /\ last'.key = Char("/")
               /\ FirstActive(app) = "top-level"]_vars

\* q arrived in a search for a: the query is aq and nothing quits
C25_Witness ==
    /\ pc = "routed"
    /\ last.key = Char("q")
    /\ last.by = "search-active"
    /\ app.search_query = <<"a", "q">>
    /\ is_search_active(app)
    /\ ~app.should_quit


\* the selection is an index of Visible, or absent when Visible is empty
SelectionInRange(a) ==
    IF Visible(a) = <<>> THEN ~a.selected.some
    ELSE a.selected.some /\ a.selected.val \in 0..(Len(Visible(a)) - 1)

\* a key routed to the top level
TopLevelStep ==
    /\ KeyStep
    /\ FirstActive(app) = "top-level"

\* C26: whatever keys were routed (next, previous, search, tag filter, mode
\* toggle, create, delete, tag edits), the selection is an index in [0, |Visible|)
\* when Visible is not empty and absent when it is empty; j and Down move it one
\* down and stay at the last record, k and Up move it one up and stay at the first.
C26_SelectionInVisible ==
    /\ [](Created(app) => SelectionInRange(app))
    /\ [][/\ (TopLevelStep /\ last'.key \in {Char("j"), Special("Down")} /\ app.selected.some)
               => app' = [app EXCEPT !.selected =
                             Some(IF app.selected.val = Len(Visible(app)) - 1
                                  THEN app.selected.val ELSE app.selected.val + 1)]
          /\ (TopLevelStep /\ last'.key \in {Char("k"), Special("Up")} /\ app.selected.some)
               => app' = [app EXCEPT !.selected =
                             Some(IF app.selected.val = 0 THEN 0 ELSE app.selected.val - 1)]
          /\ (TopLevelStep /\ ~app.selected.some
                 /\ last'.key \in {Char("j"), Special("Down"), Char("k"), Special("Up")})
               => app' = app]_vars

\* j arrived with one of the two records visible: the selection stays on it
C26_Witness ==
    /\ pc = "pending"
    /\ last.key = Char("j")
    /\ last.by = "top-level"
    /\ Len(app.prompts) = 2
    /\ Len(Visible(app)) = 1
    /\ app.selected = Some(0)


\* a key that changes the search query or the tag filter
CriteriaStep ==
    /\ KeyStep
    /\ \/ /\ FirstActive(app) = "search-active"
          /\ last'.key.code = "Char" \/ last'.key = Special("Backspace")
       \/ /\ FirstActive(app) = "tag-filter"
          /\ last'.key \in {Special("Enter"), Char("c")}

VisibleNames(a) == Range(NamesOf(Visible(a)))

\* C27: when a key changes the query (a character or Backspace in the search) or
\* the tag filter (Enter or c in the tag-filter dialog) and the record selected
\* before is still in the recomputed Visible, the selection is on that record.
C27_SelectionFollowsRecord ==
    [][(CriteriaStep /\ SelectedName(app).some
          /\ SelectedName(app).val \in VisibleNames(app'))
        => SelectedName(app') = SelectedName(app)]_vars

\* Backspace emptied the query; n, second of the two visible records, is selected
C27_Witness ==
    /\ pc = "pending"
    /\ last.key = Special("Backspace")
    /\ last.by = "search-active"
    /\ app.search_query = <<>>
    /\ Len(Visible(app)) = 2
    /\ SelectedName(app) = Some(<<"n">>)


\* C28: is_recoverable is true for Prompt(NotFound), Prompt(AlreadyExists) and
\* both Validation errors, and false for Prompt(InvalidFormat), for the Storage
\* errors Io, ParseError and InvalidPath and for the External errors
\* ClipboardError and EditorError, whatever the payload.
C28_RecoverableErrors ==
    (pc = "classified")
        => LET variant == <<last.res.err.kind, last.res.err.variant>> IN
           /\ (variant \in {<<"Prompt", "NotFound">>, <<"Prompt", "AlreadyExists">>,
                            <<"Validation", "InvalidInput">>,
                            <<"Validation", "MissingRequired">>})
                => ret = "recoverable"
           /\ (variant \in {<<"Prompt", "InvalidFormat">>, <<"Storage", "Io">>,
                            <<"Storage", "ParseError">>, <<"Storage", "InvalidPath">>,
                            <<"External", "ClipboardError">>, <<"External", "EditorError">>})
                => ret = "unrecoverable"
           /\ ret \in {"recoverable", "unrecoverable"}

\* Prompt(InvalidFormat) was classified: not recoverable, unlike the other two
C28_Witness ==
    /\ pc = "classified"
    /\ last.res.err.kind = "Prompt"
    /\ last.res.err.variant = "InvalidFormat"
    /\ ret = "unrecoverable"


\* event::read() failed in this iteration
ReadFailed ==
    /\ pc = "read"
    /\ pc' # "read"
    /\ last'.key = Special("ReadError")

\* the error was shown in the banner or returned from run_with_mode
ShownOrPropagated ==
    \/ has_error(app')
    \/ pc' = "done" /\ ret' = "Err"

\* C29: an error arising in an iteration of the run loop (a failed event read, a
\* failed routed operation, a failed editor handoff, a failed tag add or remove)
\* is shown in the error banner or returned from run_with_mode.
C29_AsStated ==
    [][/\ ReadFailed => ShownOrPropagated
       /\ (KeyStep /\ ~last'.res.ok) => ShownOrPropagated
       /\ TagEditFailed => ShownOrPropagated
       /\ EditFailed => ShownOrPropagated]_vars


\* C30: create_prompt with a template the generator does not know fails and leaves
\* the store as it was: with AlreadyExists when the normalized name is taken, the
\* existence check coming first, and with the unknown-template error otherwise.
C30_UnknownTemplateCreatesNothing ==
    [][(AppStep("create_prompt") /\ call'.template \notin KnownTemplates \cup {None})
        => /\ ~call'.res.ok
           /\ files' = files
           /\ effects' = {}
           /\ IF NormalizedNameTaken(call'.name)
              THEN call'.res.err = AlreadyExists(call'.name)
              ELSE /\ call'.res.err.kind = "Validation"
                   /\ call'.res.err.field = "template"]_vars

\* a taken name created with an unknown template: answered AlreadyExists
C30_Witness ==
    /\ pc = "returned"
    /\ call.op = "create_prompt"
    /\ call.template = "invalid-template"
    /\ IsErr(call.res, "AlreadyExists")
    /\ FileName(Normalize(call.name)) \in DOMAIN files


\* C31: update_prompt_tags writes only after the read and the header update both
\* succeeded. A missing prompt gives NotFound, a failed read its I/O error, a
\* failed header update its parse error, and in each case no file is written or
\* changed; otherwise the file gets the new tag list and keeps its body, and no
\* other file changes.
C31_WriteAfterReadAndUpdate ==
    [][AppStep("update_prompt_tags")
        => LET path == FileName(call'.name) IN
           /\ ~call'.res.ok
                => /\ files' = files
                   /\ \A eff \in effects' : eff[1] # "write"
           /\ (path \notin DOMAIN files) => IsErr(call'.res, "NotFound")
           /\ (path \in DOMAIN files)
                => \/ call'.res = Fail(IoError) /\ effects' = {}
                   \/ call'.res = Fail(ParseError) /\ effects' = {<<"read", path>>}
                   \/ /\ call'.res = Ok
                      /\ effects' = {<<"read", path>>, <<"write", path>>}
                      /\ files' = [files EXCEPT ![path].tags = call'.tags]]_vars

\* the header update of a prompt with no tags failed: the file still has no tags
C31_Witness ==
    /\ pc = "returned"
    /\ call.op = "update_prompt_tags"
    /\ call.res = Fail(ParseError)
    /\ call.tags # <<>>
    /\ FileName(call.name) \in DOMAIN files
    /\ files[FileName(call.name)].tags = <<>>


\* the prompts a filter asks for: all of them without a filter or without a tag
\* set, else those with a tag in the set
Wanted(m, filter) ==
    \/ ~filter.some
    \/ ~filter.val.tags.some
    \/ Range(m.tags) \cap Range(filter.val.tags.val) # {}

\* got is a subsequence of all: its records taken from all in increasing position
IsSubsequence(got, all) ==
    \E pos \in [1..Len(got) -> 1..Len(all)] :
        /\ \A i \in 1..Len(got) : got[i] = all[pos[i]]
        /\ \A i, j \in 1..Len(got) : i < j => pos[i] < pos[j]

\* C32: list_prompts returns a subsequence of the repository's listing, in its
\* order: every prompt without a filter or with a filter that has no tag set, and
\* with a tag set exactly the prompts carrying a tag that is, as a string, in the
\* set; a prompt without tags is then left out and the empty set returns nothing.
\* The store is not changed.
C32_ListIsFilteredSubsequence ==
    [][(AppStep("list_prompts") /\ call'.res.ok)
        => LET all == repository_list_all(World, TRUE).res.val
               got == call'.res.val
               filter == call'.tags
           IN  /\ IsSubsequence(got, all)
               /\ Range(got) = {m \in Range(all) : Wanted(m, filter)}
               /\ (filter.some /\ filter.val.tags.some)
                    => /\ \A m \in Range(got) : m.tags # <<>>
                       /\ (filter.val.tags.val = <<>>) => got = <<>>
               /\ files' = files
               /\ effects' = {}]_vars

\* two prompts, one with the tags a and A and one with none, listed with the set
\* {r, A}: only the first is returned
C32_Witness ==
    /\ pc = "returned"
    /\ call.op = "list_prompts"
    /\ call.tags = Some([tags |-> Some(<<<<"r">>, <<"A">>>>)])
    /\ call.res.ok
    /\ Cardinality(DOMAIN files) = 2
    /\ Len(call.res.val) = 1
    /\ call.res.val[1].tags = <<<<"a">>, <<"A">>>>
    /\ \E p \in DOMAIN files : files[p].tags = <<>>


\* C33: in a search, Backspace on a query that is not empty returns Ok and leaves
\* the query without its last character, whatever characters were typed;
\* Backspace on the empty query changes nothing; the search stays active.
C33_AsStated ==
    [][(KeyStep /\ FirstActive(app) = "search-active" /\ last'.key = Special("Backspace"))
        => /\ last'.res = Ok
           /\ is_search_active(app')
           /\ IF app.search_query # <<>>
              THEN app'.search_query =
                       SubSeq(app.search_query, 1, Len(app.search_query) - 1)
              ELSE app' = app]_vars


\* the statements that call enable_raw_mode and disable_raw_mode
\*                                                runner.rs:380, 422 and 415, 442
EnableCalls == {"start", "h_enable"}
DisableCalls == {"h_disable", "restore"}

\* C34: whenever the loop draws or waits for an event, raw mode is enabled and the
\* alternate screen entered, also after editor handoffs. The calls that enable and
\* disable raw mode alternate: enable is called only with raw mode off, first at
\* startup, and disable only with raw mode on; raw mode changes in no other
\* statement; and run_with_mode returns Ok with raw mode off and the screen left.
C34_RawModeAlternates ==
    /\ [](pc \in {"draw", "read", "pending"} => raw /\ alt)
    /\ [][/\ (pc \in EnableCalls) => ~raw /\ (raw' \/ pc' = "done")
          /\ (pc \in DisableCalls) => raw /\ (~raw' \/ pc' = "done")
          /\ (raw' # raw) => pc \in EnableCalls \cup DisableCalls
          /\ (ret' = "Ok") => ~raw' /\ ~alt']_vars

\* the editor ran in this iteration and the loop waits for the next event
C34_Witness ==
    /\ pc = "read"
    /\ \E eff \in effects : eff[1] = "editor"
    /\ raw
    /\ alt


\* Enter in the AddingTag or RemovingTag mode of the tag-edit dialog
EnterInTagInput ==
    /\ KeyStep
    /\ FirstActive(app) = "tag-edit"
    /\ last'.key = Special("Enter")
    /\ app.tag_dialog.val.input_mode \in {"AddingTag", "RemovingTag"}

\* the tag-edit dialog is the fresh one over the tags of the selected prompt
TagDialogRefreshed(a) ==
    /\ FirstActive(a) = "tag-edit"
    /\ a.tag_dialog.val.input_mode = "ViewTags"
    /\ a.tag_dialog.val.input = <<>>
    /\ a.tag_dialog.val.tags = get_selected_prompt_tags(a)

\* C35: after Enter in the AddingTag or RemovingTag mode of the tag-edit dialog the
\* dialog is still active, in ViewTags mode with an empty input buffer, over the
\* current tags of the selected prompt, whether the add or remove succeeded, failed
\* or was skipped; the selection and the mode are unchanged.
C35_AsStated ==
    [][EnterInTagInput
        => /\ TagDialogRefreshed(app')
           /\ app'.mode = app.mode
           /\ app'.selected = app.selected]_vars

\* C35 as amended: after that Enter the dialog is the fresh one over the current
\* tags of the selected prompt and the mode is unchanged, whether the add or remove
\* succeeded, failed or was skipped. The selection keeps identifying the same prompt
\* while that prompt is still visible, and keeps its index when the visible list is
\* the same or nothing was written; it moves by the stability policy when the
\* change took the selected prompt out of the visible list.
C35_DialogRefreshedSelectionFollows ==
    [][EnterInTagInput
        => /\ TagDialogRefreshed(app')
           /\ app'.mode = app.mode
           /\ SelectionInRange(app')
           /\ (SelectedName(app).some /\ SelectedName(app).val \in VisibleNames(app'))
                 => SelectedName(app') = SelectedName(app)
           /\ (NamesOf(Visible(app')) = NamesOf(Visible(app)) \/ effects' = {})
                 => app'.selected = app.selected]_vars

\* a tag was written by Enter in the dialog and the dialog shows it
C35_Witness ==
    /\ pc = "pending"
    /\ last.key = Special("Enter")
    /\ FirstActive(app) = "tag-edit"
    /\ \E eff \in effects : eff[1] = "write"
    /\ TagDialogRefreshed(app)
    /\ app.tag_dialog.val.tags # <<>>

====
